---- MODULE Spec2Model ----
(***************************************************************************)
(* The chain execution engine of contenox/runtime-mvp (package taskengine):*)
(* SimpleEnv.ExecEnv with validateChain, findTaskByID, renderTemplate,     *)
(* evaluateTransitions, compare and parseNumber.                           *)
(*                                                                         *)
(* Go strings are TLA+ strings; Len, SubSeq and \o act on them as on       *)
(* sequences of characters.  A Go error is a string, "" standing for nil.  *)
(***************************************************************************)
EXTENDS Integers, Sequences, FiniteSets, TLC

VARIABLES
    chain,          \* the *ChainDefinition argument of ExecEnv
    input,          \* the input argument of ExecEnv
    dataType,       \* the dataType argument of ExecEnv
    ctxCancelled,   \* whether the caller's ctx has been cancelled
    pc,             \* position of the ExecEnv call
    currentTask,    \* local currentTask (a copy of a chain task)
    output,         \* local output
    outputType,     \* local outputType
    transitionEval, \* local transitionEval
    taskErr,        \* local taskErr
    retry,          \* loop variable of retryLoop
    scope,          \* local vars: the map[string]any of the execution
    events,         \* calls made on exe.tracker and its callbacks, and the
                    \* lines written to standard output (kind "println")
    visited,        \* ids of the tasks whose loop body was entered, in order
    captured,       \* captured state units of the execution
    retOutput,      \* first result of ExecEnv
    retErr,         \* error result of ExecEnv
    resolver,       \* local resolver: the policy handed to the executor
    execCalls,      \* the calls of exe.exec.TaskExec, in order
    defers,         \* the deferred calls of ExecEnv: those pending, those run
    evalCall,       \* a call of evaluateTransitions on its own
    cmpCall,        \* a call of compare on its own
    db,             \* the kv table, and the last call made on the chain store
    exe,            \* the SimpleEnv: its executor
    parked,         \* the locals of a second ExecEnv call that is not running
    mock,           \* a MockTaskExecutor, and the calls made on it
    users,          \* the users and access entries of the store, the last Register
    authz,          \* a call of AccessList.RequireAuthorisation on its own
    index           \* the keyword rows and chunks of the index, the last call

vars == <<chain, input, dataType, ctxCancelled, pc, currentTask, output,
          outputType, transitionEval, taskErr, retry, scope, events, visited,
          captured, retOutput, retErr, resolver, execCalls, defers, evalCall,
          cmpCall, db, exe, parked, mock, users, authz, index>>

engineVars == <<chain, input, dataType, ctxCancelled, pc, currentTask, output,
                outputType, transitionEval, taskErr, retry, scope, events,
                visited, captured, retOutput, retErr, resolver, execCalls,
                defers>>

\* the state of the user and index services
serviceVars == <<users, authz, index>>

\* the state outside the ExecEnv call
sideVars == <<evalCall, cmpCall, db, exe, parked, mock, serviceVars>>

-----------------------------------------------------------------------------
(* Bounds of the model *)

\* longest task list of a chain
MaxTasks == 2
\* most task visits of one execution (chains may loop for ever)
MaxVisits == 3
\* longest branch list handed to evaluateTransitions on its own
MaxBranches == 2

-----------------------------------------------------------------------------
(* Constants of package taskengine *)

DataTypeAny == 0
DataTypeString == 1
DataTypeInt == 3

TermEnd == "end"

OpEquals == "equals"
OpContains == "contains"
OpStartsWith == "starts_with"
OpEndsWith == "ends_with"
OpGreaterThan == "greater_than"
OpGt == ">"
OpLessThan == "less_than"
OpLt == "<"
OpInRange == "in_range"
OpDefault == "default"

\* the nil value of an `any`
Nil == "<nil>"

-----------------------------------------------------------------------------
(* Strings *)

Max(a, b) == IF a >= b THEN a ELSE b

CharAt(s, i) == SubSeq(s, i, i)

\* strings.HasPrefix, strings.HasSuffix, strings.Contains
HasPrefix(s, p) == Len(p) <= Len(s) /\ SubSeq(s, 1, Len(p)) = p
HasSuffix(s, p) ==
    Len(p) <= Len(s) /\ SubSeq(s, Len(s) - Len(p) + 1, Len(s)) = p
Contains(s, p) ==
    \E i \in 1..(Len(s) - Len(p) + 1) : SubSeq(s, i, i + Len(p) - 1) = p

\* strings.TrimSpace (the only white space of the model's alphabet is " ")
RECURSIVE TrimLeft(_)
TrimLeft(s) ==
    IF Len(s) > 0 /\ CharAt(s, 1) = " " THEN TrimLeft(SubSeq(s, 2, Len(s)))
    ELSE s
RECURSIVE TrimRight(_)
TrimRight(s) ==
    IF Len(s) > 0 /\ CharAt(s, Len(s)) = " "
    THEN TrimRight(SubSeq(s, 1, Len(s) - 1))
    ELSE s
TrimSpace(s) == TrimRight(TrimLeft(s))

\* strings.Split(s, sep) for a one-character sep: the parts between the
\* occurrences of sep, in order
RECURSIVE SplitFrom(_, _, _)
SplitFrom(s, sep, acc) ==
    IF Len(s) = 0 THEN <<acc>>
    ELSE IF CharAt(s, 1) = sep
         THEN <<acc>> \o SplitFrom(SubSeq(s, 2, Len(s)), sep, "")
         ELSE SplitFrom(SubSeq(s, 2, Len(s)), sep, acc \o CharAt(s, 1))
Split(s, sep) == SplitFrom(s, sep, "")

-----------------------------------------------------------------------------
(* Numbers.  strconv.ParseInt(s, 10, 64) and strconv.ParseFloat(s, 64) on  *)
(* strings over digits, "+", "-", "." and characters that occur in no      *)
(* number syntax (no exponent, no "inf", no "nan", no hex).  A number is   *)
(* [m, d], standing for m / 10^d.                                          *)

Digits == {"0", "1", "2", "3", "4", "5", "6", "7", "8", "9"}

DigitVal(c) ==
    CASE c = "0" -> 0 [] c = "1" -> 1 [] c = "2" -> 2 [] c = "3" -> 3
      [] c = "4" -> 4 [] c = "5" -> 5 [] c = "6" -> 6 [] c = "7" -> 7
      [] c = "8" -> 8 [] c = "9" -> 9

AllDigits(s) == \A i \in 1..Len(s) : CharAt(s, i) \in Digits

RECURSIVE DigitsVal(_)
DigitsVal(s) ==
    IF Len(s) = 0 THEN 0
    ELSE 10 * DigitsVal(SubSeq(s, 1, Len(s) - 1)) + DigitVal(CharAt(s, Len(s)))

RECURSIVE Pow10(_)
Pow10(n) == IF n = 0 THEN 1 ELSE 10 * Pow10(n - 1)

HasSign(s) == Len(s) > 0 /\ CharAt(s, 1) \in {"+", "-"}
Unsigned(s) == IF HasSign(s) THEN SubSeq(s, 2, Len(s)) ELSE s
SignOf(s) == IF HasSign(s) /\ CharAt(s, 1) = "-" THEN -1 ELSE 1

\* strconv.ParseInt(s, 10, 64): an optional sign and one or more digits
ParseIntOk(s) == Len(Unsigned(s)) > 0 /\ AllDigits(Unsigned(s))

\* strconv.ParseFloat(s, 64): an optional sign, digits with at most one ".",
\* at least one digit; p is the unsigned text split at "."
DotParts(s) == Split(Unsigned(s), ".")
FloatPartsOk(p) ==
    /\ Len(p) \in {1, 2}
    /\ \A i \in 1..Len(p) : AllDigits(p[i])
    /\ \E i \in 1..Len(p) : Len(p[i]) > 0
ParseFloatOk(s) == FloatPartsOk(DotParts(s))

Number(ok, m, d) == [ok |-> ok, m |-> m, d |-> d]

FloatOf(sign, p) ==
    IF ~FloatPartsOk(p) THEN Number(FALSE, 0, 0)
    ELSE IF Len(p) = 1 THEN Number(TRUE, sign * DigitsVal(p[1]), 0)
    ELSE Number(TRUE,
                sign * (DigitsVal(p[1]) * Pow10(Len(p[2])) + DigitsVal(p[2])),
                Len(p[2]))

IntOf(sign, digits) ==
    IF Len(digits) > 0 /\ AllDigits(digits)
    THEN Number(TRUE, sign * DigitsVal(digits), 0)
    ELSE Number(FALSE, 0, 0)

\* the integer when ParseInt accepts s, else what ParseFloat gives
FirstOk(asInt, asFloat) == IF asInt.ok THEN asInt ELSE asFloat

parseNumber(s) ==
    FirstOk(IntOf(SignOf(s), Unsigned(s)), FloatOf(SignOf(s), DotParts(s)))

NumLess(a, b) == a.m * Pow10(b.d) < b.m * Pow10(a.d)
NumLeq(a, b) == a.m * Pow10(b.d) <= b.m * Pow10(a.d)

-----------------------------------------------------------------------------
(* compare: [match, err] *)

CmpResult(match, err) == [match |-> match, err |-> err]

\* the numeric cases, on the parsed operands
CompareGreater(resNum, targetNum) ==
    IF ~resNum.ok THEN CmpResult(FALSE, "parse response")
    ELSE IF ~targetNum.ok THEN CmpResult(FALSE, "parse when")
    ELSE CmpResult(NumLess(targetNum, resNum), "")

CompareLess(resNum, targetNum) ==
    IF ~resNum.ok THEN CmpResult(FALSE, "parse response")
    ELSE IF ~targetNum.ok THEN CmpResult(FALSE, "parse when")
    ELSE CmpResult(NumLess(resNum, targetNum), "")

CompareBounds(lower, upper, resNum) ==
    IF ~lower.ok THEN CmpResult(FALSE, "invalid lower bound")
    ELSE IF ~upper.ok THEN CmpResult(FALSE, "invalid upper bound")
    ELSE IF ~resNum.ok THEN CmpResult(FALSE, "parse response")
    ELSE CmpResult(NumLeq(lower, resNum) /\ NumLeq(resNum, upper), "")

CompareInRange(parts, response) ==
    IF Len(parts) # 2 THEN CmpResult(FALSE, "invalid between range format")
    ELSE CompareBounds(parseNumber(TrimSpace(parts[1])),
                       parseNumber(TrimSpace(parts[2])),
                       parseNumber(response))

\* an operator that is not known matches nothing
compareUnknownNoMatch(operator, response, when) ==
    CASE operator = OpEquals -> CmpResult(response = when, "")
      [] operator = OpContains -> CmpResult(Contains(response, when), "")
      [] operator = OpStartsWith -> CmpResult(HasPrefix(response, when), "")
      [] operator = OpEndsWith -> CmpResult(HasSuffix(response, when), "")
      [] operator \in {OpGreaterThan, OpGt} ->
            CompareGreater(parseNumber(response), parseNumber(when))
      [] operator \in {OpLessThan, OpLt} ->
            CompareLess(parseNumber(response), parseNumber(when))
      [] operator = OpInRange -> CompareInRange(Split(when, "-"), response)
      [] OTHER -> CmpResult(FALSE, "")

compare(operator, response, when) ==
    CASE operator = OpEquals -> CmpResult(response = when, "")
      [] operator = OpContains -> CmpResult(Contains(response, when), "")
      [] operator = OpStartsWith -> CmpResult(HasPrefix(response, when), "")
      [] operator = OpEndsWith -> CmpResult(HasSuffix(response, when), "")
      [] operator \in {OpGreaterThan, OpGt} ->
            CompareGreater(parseNumber(response), parseNumber(when))
      [] operator \in {OpLessThan, OpLt} ->
            CompareLess(parseNumber(response), parseNumber(when))
      [] operator = OpInRange -> CompareInRange(Split(when, "-"), response)
      [] OTHER -> CmpResult(FALSE, "unsupported operator")

-----------------------------------------------------------------------------
(* evaluateTransitions: [goto, err, idx], idx the index of the branch whose *)
(* goto is returned (0 when none is)                                        *)

\* a branch whose comparison fails passed over
RECURSIVE ExplicitMatchSkipErrors(_, _, _)
ExplicitMatchSkipErrors(branches, eval, i) ==
    IF i > Len(branches) THEN [kind |-> "none", idx |-> 0, err |-> ""]
    ELSE LET ct == branches[i]
         IN  IF ct.Operator = OpDefault
             THEN ExplicitMatchSkipErrors(branches, eval, i + 1)
             ELSE LET r == compare(ct.Operator, eval, ct.When)
                  IN  IF r.err = "" /\ r.match
                      THEN [kind |-> "match", idx |-> i, err |-> ""]
                      ELSE ExplicitMatchSkipErrors(branches, eval, i + 1)

\* the first loop: the non-default branches in declared order
RECURSIVE ExplicitMatch(_, _, _)
ExplicitMatch(branches, eval, i) ==
    IF i > Len(branches) THEN [kind |-> "none", idx |-> 0, err |-> ""]
    ELSE LET ct == branches[i]
         IN  IF ct.Operator = OpDefault
             THEN ExplicitMatch(branches, eval, i + 1)
             ELSE LET r == compare(ct.Operator, eval, ct.When)
                  IN  IF r.err # ""
                      THEN [kind |-> "err", idx |-> i, err |-> r.err]
                      ELSE IF r.match
                      THEN [kind |-> "match", idx |-> i, err |-> ""]
                      ELSE ExplicitMatch(branches, eval, i + 1)

\* the second loop: the first branch whose operator is "default", or 0
DefaultIndex(branches) ==
    LET ds == {i \in 1..Len(branches) : branches[i].Operator = "default"}
    IN  IF ds = {} THEN 0 ELSE CHOOSE i \in ds : \A j \in ds : i <= j

\* one pass in declared order, a default branch taken where it stands
RECURSIVE InOrderMatch(_, _, _)
InOrderMatch(branches, eval, i) ==
    IF i > Len(branches) THEN [kind |-> "none", idx |-> 0, err |-> ""]
    ELSE LET ct == branches[i]
         IN  IF ct.Operator = OpDefault
             THEN [kind |-> "match", idx |-> i, err |-> ""]
             ELSE LET r == compare(ct.Operator, eval, ct.When)
                  IN  IF r.err # ""
                      THEN [kind |-> "err", idx |-> i, err |-> r.err]
                      ELSE IF r.match
                      THEN [kind |-> "match", idx |-> i, err |-> ""]
                      ELSE InOrderMatch(branches, eval, i + 1)

TransitionResult(branches, first) ==
    IF first.kind = "err" THEN [goto |-> "", err |-> first.err, idx |-> 0]
    ELSE IF first.kind = "match"
    THEN [goto |-> branches[first.idx].Goto, err |-> "", idx |-> first.idx]
    ELSE [goto |-> "", err |-> "no matching transition found", idx |-> 0]

evaluateTransitionsInOrder(transition, eval) ==
    TransitionResult(transition.Branches,
                     InOrderMatch(transition.Branches, eval, 1))

\* no matching branch taken for the end of the chain
SelectedOrEnd(branches, first, dflt) ==
    IF first.kind = "err" THEN [goto |-> "", err |-> first.err, idx |-> 0]
    ELSE IF first.kind = "match"
    THEN [goto |-> branches[first.idx].Goto, err |-> "", idx |-> first.idx]
    ELSE IF dflt # 0
    THEN [goto |-> branches[dflt].Goto, err |-> "", idx |-> dflt]
    ELSE [goto |-> "", err |-> "", idx |-> 0]

evaluateTransitionsNoMatchEnds(transition, eval) ==
    SelectedOrEnd(transition.Branches,
                  ExplicitMatch(transition.Branches, eval, 1),
                  DefaultIndex(transition.Branches))

\* lines 248-272, given the outcome of the first loop and of the second
Selected(branches, first, dflt) ==
    IF first.kind = "err" THEN [goto |-> "", err |-> first.err, idx |-> 0]
    ELSE IF first.kind = "match"
    THEN [goto |-> branches[first.idx].Goto, err |-> "", idx |-> first.idx]
    ELSE IF dflt # 0
    THEN [goto |-> branches[dflt].Goto, err |-> "", idx |-> dflt]
    ELSE [goto |-> "", err |-> "no matching transition found", idx |-> 0]

evaluateTransitions(transition, eval) ==
    Selected(transition.Branches, ExplicitMatch(transition.Branches, eval, 1),
             DefaultIndex(transition.Branches))

-----------------------------------------------------------------------------
(* findTaskByID and validateChain *)

\* a ChainTask has the fields ID, Template, Timeout, RetryOnFailure, Transition
\* and PrintStmt, which is the field named Print in the source
NoTask ==
    [ID |-> "", Type |-> "", Template |-> "", Timeout |-> "",
     RetryOnFailure |-> 0, PrintStmt |-> "",
     Transition |-> [Branches |-> <<>>, OnFailure |-> ""]]

\* a task found with one retry fewer than the chain gives it
findTaskByIDAltered(tasks, id) ==
    LET hits == {i \in 1..Len(tasks) : tasks[i].ID = id}
    IN  IF hits = {} THEN [task |-> NoTask, err |-> "task not found"]
        ELSE [task |-> [tasks[CHOOSE i \in hits : \A j \in hits : i <= j]
                          EXCEPT !.RetryOnFailure = @ - 1],
              err |-> ""]

\* the first task with the given id, copied
findTaskByID(tasks, id) ==
    LET hits == {i \in 1..Len(tasks) : tasks[i].ID = id}
    IN  IF hits = {} THEN [task |-> NoTask, err |-> "task not found"]
        ELSE [task |-> tasks[CHOOSE i \in hits : \A j \in hits : i <= j],
              err |-> ""]

\* validateChain without the check for the reserved id
validateChainEndAllowed(tasks) ==
    IF Len(tasks) = 0 THEN "chain has no tasks"
    ELSE IF \E i \in 1..Len(tasks) : tasks[i].ID = ""
    THEN "task ID cannot be empty"
    ELSE ""

validateChain(tasks) ==
    IF Len(tasks) = 0 THEN "chain has no tasks"
    ELSE LET bad == {i \in 1..Len(tasks) :
                        tasks[i].ID = "" \/ tasks[i].ID = TermEnd}
         IN  IF bad = {} THEN ""
             ELSE LET i == CHOOSE k \in bad : \A j \in bad : k <= j
                  IN  IF tasks[i].ID = "" THEN "task ID cannot be empty"
                      ELSE "task ID cannot be 'end'"

\* llmresolver.Randomly
Randomly == "random"

\* llmresolver.PolicyFromString: the known policy names
PolicyFromString(s) ==
    IF s \in {Randomly, "round_robin", "low_latency"}
    THEN [policy |-> s, err |-> ""]
    ELSE [policy |-> "", err |-> "unknown routing strategy"]

-----------------------------------------------------------------------------
(* renderTemplate.  The templates of the model are text with field actions *)
(* {{.name}} on the map data of variables; "{{" without "}}", or an action that *)
(* is not a field, does not parse.                                         *)

\* strings.Index + 1: the first position of p in s, 0 when there is none
Index(s, p) ==
    LET at == {i \in 1..(Len(s) - Len(p) + 1) : SubSeq(s, i, i + Len(p) - 1) = p}
    IN  IF at = {} THEN 0 ELSE CHOOSE i \in at : \A j \in at : i <= j

NameChars ==
    {"a", "b", "c", "d", "e", "f", "g", "h", "i", "j", "k", "l", "m", "n",
     "o", "p", "q", "r", "s", "t", "u", "v", "w", "x", "y", "z", "_"}

IsField(action) ==
    /\ Len(action) >= 2
    /\ CharAt(action, 1) = "."
    /\ \A i \in 2..Len(action) : CharAt(action, i) \in NameChars

\* what an action {{.name}} prints for the map data
FieldText(data, name) ==
    IF name \in DOMAIN data /\ data[name] # Nil THEN data[name]
    ELSE "<no value>"

RECURSIVE renderTemplate(_, _)
renderTemplate(tmplStr, data) ==
    LET open == Index(tmplStr, "{{")
    IN  IF open = 0 THEN [out |-> tmplStr, err |-> ""]
        ELSE LET rest == SubSeq(tmplStr, open + 2, Len(tmplStr))
                 close == Index(rest, "}}")
             IN  IF close = 0 THEN [out |-> "", err |-> "unclosed action"]
                 ELSE LET action == TrimSpace(SubSeq(rest, 1, close - 1))
                          tail == renderTemplate(
                                      SubSeq(rest, close + 2, Len(rest)), data)
                      IN  IF ~IsField(action)
                          THEN [out |-> "", err |-> "bad action"]
                          ELSE IF tail.err # "" THEN tail
                          ELSE [out |-> SubSeq(tmplStr, 1, open - 1)
                                          \o FieldText(data,
                                                 SubSeq(action, 2, Len(action)))
                                          \o tail.out,
                                err |-> ""]

-----------------------------------------------------------------------------
(* time.ParseDuration: an optional sign, then "0" or one or more groups of *)
(* a decimal number and a unit                                             *)

DurationUnits == {"ns", "us", "ms", "s", "m", "h"}

\* length of the longest prefix of s made of characters of cs
RECURSIVE Span(_, _)
Span(s, cs) ==
    IF Len(s) > 0 /\ CharAt(s, 1) \in cs
    THEN 1 + Span(SubSeq(s, 2, Len(s)), cs)
    ELSE 0

\* length of the longest prefix of s without a character of cs
RECURSIVE SpanNot(_, _)
SpanNot(s, cs) ==
    IF Len(s) > 0 /\ CharAt(s, 1) \notin cs
    THEN 1 + SpanNot(SubSeq(s, 2, Len(s)), cs)
    ELSE 0

RECURSIVE DurationGroups(_)
DurationGroups(s) ==
    IF Len(s) = 0 THEN TRUE
    ELSE LET pre == Span(s, Digits)
             s1 == SubSeq(s, pre + 1, Len(s))
             dot == Len(s1) > 0 /\ CharAt(s1, 1) = "."
             s2 == IF dot THEN SubSeq(s1, 2, Len(s1)) ELSE s1
             post == IF dot THEN Span(s2, Digits) ELSE 0
             s3 == SubSeq(s2, post + 1, Len(s2))
             u == SpanNot(s3, Digits \cup {"."})
         IN  /\ pre + post > 0
             /\ SubSeq(s3, 1, u) \in DurationUnits
             /\ DurationGroups(SubSeq(s3, u + 1, Len(s3)))

ParseDurationOk(s) ==
    LET body == Unsigned(s)
    IN  body = "0" \/ (Len(body) > 0 /\ DurationGroups(body))

-----------------------------------------------------------------------------
(* The chains, inputs and executor results of the model *)

Branch(operator, when, goto) ==
    [Operator |-> operator, When |-> when, Goto |-> goto]

\* the task types of the model
RawString == "raw_string"
Hook == "hook"

ChainTask(id, template, timeout, retryOnFailure, print, branches, onFailure) ==
    [ID |-> id, Type |-> RawString, Template |-> template, Timeout |-> timeout,
     RetryOnFailure |-> retryOnFailure, PrintStmt |-> print,
     Transition |-> [Branches |-> branches, OnFailure |-> onFailure]]

\* a task that calls a hook
HookTask(id, template, timeout, retryOnFailure, print, branches, onFailure) ==
    [ID |-> id, Type |-> Hook, Template |-> template, Timeout |-> timeout,
     RetryOnFailure |-> retryOnFailure, PrintStmt |-> print,
     Transition |-> [Branches |-> branches, OnFailure |-> onFailure]]

TaskPool ==
    { ChainTask("a", "", "", 2, "", <<Branch("default", "", "end")>>, ""),
      ChainTask("a", "", "", 1, "",
                <<Branch("default", "", "b"), Branch("equals", "echo", "end")>>,
                "b"),
      HookTask("b", "{{.input}}", "50ms", 1, "", <<Branch("equals", "73", "a")>>,
               "a"),
      ChainTask("b", "", "", 0, "",
                <<Branch("equals", "echo", "c"), Branch(">", "50", ""),
                  Branch("default", "", "end")>>,
                "c"),
      ChainTask("c", "", "", 0, "", <<Branch("default", "", "a")>>, ""),
      ChainTask("", "", "", 0, "", <<Branch("default", "", "end")>>, ""),
      ChainTask("end", "", "", 0, "", <<Branch("default", "", "end")>>, ""),
      ChainTask("a", "{{.input}}", "50ms", 0, "{{.a}}!",
                <<Branch("default", "", "b")>>, ""),
      ChainTask("b", "{{.input", "soon", 1, "", <<Branch("default", "", "end")>>,
                "a"),
      ChainTask("b", "", "", -1, "{{", <<Branch("default", "", "end")>>, ""),
      ChainTask("c", "", "", 1, "",
                <<Branch("matches", "x", "a"), Branch("default", "", "end")>>,
                "a") }

RECURSIVE SeqsUpTo(_, _)
SeqsUpTo(S, n) ==
    IF n = 0 THEN {<<>>}
    ELSE LET shorter == SeqsUpTo(S, n - 1)
         IN  shorter \cup {Append(q, x) : q \in shorter, x \in S}

RoutingStrategies == {"", "round_robin", "bogus"}

\* no two tasks of the list have the same id
DistinctIDs(ts) ==
    \A i \in 1..Len(ts) : \A j \in 1..Len(ts) : ts[i].ID = ts[j].ID => i = j

\* the task lists of the model: every list of up to two tasks, and the
\* longer lists of tasks with different ids (a task whose id is that of an
\* earlier task is never found by findTaskByID)
TaskLists ==
    {ts \in SeqsUpTo(TaskPool, MaxTasks) : Len(ts) <= 2 \/ DistinctIDs(ts)}

\* every task list without a routing strategy, and the task lists of one task
\* with each routing strategy
Chains ==
    {[RoutingStrategy |-> "", Tasks |-> ts] : ts \in TaskLists}
      \cup {[RoutingStrategy |-> r, Tasks |-> ts] :
                r \in RoutingStrategies, ts \in SeqsUpTo(TaskPool, 1)}

Inputs == {"hello", ""}
InputTypes == {DataTypeAny, DataTypeString}

\* the error of an executor whose hook registry answered
\* StatusUnknownHookProvider
UnknownHookError == "unknown hook provider"

\* what a TaskExecutor may return for a payload: the raw passthrough of the
\* payload, two other successes, and a failure that returns, as
\* MockTaskExecutor does, an output and the data type it was given
ExecResults(payload, payloadType) ==
    { [output |-> payload, outputType |-> DataTypeString,
       transitionEval |-> payload, err |-> ""],
      [output |-> "73", outputType |-> DataTypeInt, transitionEval |-> "73",
       err |-> ""],
      [output |-> "echo", outputType |-> DataTypeString,
       transitionEval |-> "echo", err |-> ""],
      [output |-> "partial", outputType |-> payloadType, transitionEval |-> "",
       err |-> "exec failed"] }

\* what the executor of a hook task returns when the hook registry does not
\* know the hook
HookResults(type) ==
    IF type # Hook THEN {}
    ELSE { [output |-> Nil, outputType |-> DataTypeAny, transitionEval |-> "",
            err |-> UnknownHookError] }

\* the error of context.DeadlineExceeded
DeadlineExceeded == "context deadline exceeded"

\* what a TaskExecutor returns when the deadline of its context passes before
\* it is done; a context without a deadline never expires
DeadlineResults(timeout, payloadType) ==
    IF timeout = "" THEN {}
    ELSE { [output |-> Nil, outputType |-> payloadType, transitionEval |-> "",
            err |-> DeadlineExceeded] }

\* an executor without state: its result is a function of the task and the
\* payload: it fails on an empty payload, answers "73" for task b and
\* returns the payload otherwise
StatelessExec(task, payload, payloadType) ==
    IF payload = "" \/ payload = Nil
    THEN [output |-> "partial", outputType |-> payloadType,
          transitionEval |-> "", err |-> "exec failed"]
    ELSE IF task.ID = "b"
    THEN [output |-> "73", outputType |-> DataTypeInt, transitionEval |-> "73",
          err |-> ""]
    ELSE [output |-> payload, outputType |-> DataTypeString,
          transitionEval |-> payload, err |-> ""]

-----------------------------------------------------------------------------
(* SimpleEnv.ExecEnv *)

\* line 149: the results exe.exec.TaskExec may give
TaskExec(task, payload, payloadType) ==
    IF exe.exec = "stateless"
    THEN {StatelessExec(task, payload, payloadType)}
    ELSE ExecResults(payload, payloadType)
            \cup HookResults(task.Type)
            \cup DeadlineResults(task.Timeout, payloadType)

Event(kind, task, next, n, payload) ==
    [kind |-> kind, task |-> task, next |-> next, retry |-> n,
     payload |-> payload, visit |-> Len(visited)]

\* one captured state unit of a task visit
CapturedStateUnit(task, err) == [taskID |-> task.ID, error |-> err]
\* a unit recorded for successful visits only
RecordStepSuccessOnly(units, task, err) ==
    IF err # "" THEN units ELSE Append(units, CapturedStateUnit(task, err))
RecordStep(units, task, err) == Append(units, CapturedStateUnit(task, err))

EmptyScope == [k \in {} |-> Nil]
SetVar(m, k, v) == [x \in DOMAIN m \cup {k} |-> IF x = k THEN v ELSE m[x]]

\* no call deferred, none run
NoDefers == [pending |-> <<>>, ran |-> <<>>]

\* a deferred call: the cancel function of a timeout context or the end
\* callback of a span, for the span opened by event number span
Deferred(fn, span) == [fn |-> fn, span |-> span]

\* the kinds of the events that are calls of exe.tracker.Start
SpanKinds == {"task_attempt", "next_task", "chain_complete"}

\* the end callback of the spans between tasks never deferred
DefersOfAttemptOnly(e, i, timeout) ==
    IF e.kind = "task_attempt"
    THEN (IF timeout # "" THEN <<Deferred("cancel", i)>> ELSE <<>>)
            \o <<Deferred("end", i)>>
    ELSE <<>>

\* lines 138, 148, 175, 211, 223: the calls deferred when the event e, event
\* number i, is made for a task with the given timeout: 'defer cancel()' of
\* the timeout context, then 'defer end()' of the span
DefersOf(e, i, timeout) ==
    IF e.kind = "task_attempt"
    THEN (IF timeout # "" THEN <<Deferred("cancel", i)>> ELSE <<>>)
            \o <<Deferred("end", i)>>
    ELSE IF e.kind \in SpanKinds THEN <<Deferred("end", i)>>
    ELSE <<>>

\* the calls deferred for the events after event number from
RECURSIVE Pushed(_, _, _)
Pushed(evs, from, timeout) ==
    IF from >= Len(evs) THEN <<>>
    ELSE DefersOf(evs[from + 1], from + 1, timeout)
            \o Pushed(evs, from + 1, timeout)

Reverse(q) == [i \in 1..Len(q) |-> q[Len(q) + 1 - i]]

\* the deferred calls after a step of ExecEnv: those of the step are pushed,
\* and when ExecEnv returns all of them run, the last deferred first
Defer ==
    LET pending == defers.pending
                      \o Pushed(events', Len(events), currentTask.Timeout)
    IN  defers' = IF pc' = "returned"
                  THEN [pending |-> <<>>, ran |-> Reverse(pending)]
                  ELSE [pending |-> pending, ran |-> <<>>]

\* a SimpleEnv whose executor may return any of ExecResults
AnyExecutor == [exec |-> "any"]

\* a SimpleEnv whose executor is the function StatelessExec
StatelessExecutor == [exec |-> "stateless"]

\* no second call
NoCall == [who |-> 0]

\* no row in the kv table, no call made
EmptyDB == [kv |-> <<>>, stored |-> <<>>, last |-> [op |-> "none"]]

\* no user and no access entry, Register never called
NoUsers == [users |-> <<>>, access |-> <<>>, last |-> [op |-> "none"]]

\* no call of RequireAuthorisation
AuthzIdle == [state |-> "idle"]

\* nothing indexed, no call made
NoIndex == [kv |-> <<>>, chunks |-> <<>>, vectors |-> {}, last |-> [op |-> "none"]]

ServicesIdle == users = NoUsers /\ authz = AuthzIdle /\ index = NoIndex

\* a MockTaskExecutor with nothing configured, never called
MockIdle ==
    [MockOutput |-> Nil, MockRawResponse |-> "", MockError |-> "",
     ErrorSequence |-> <<>>, callIndex |-> 0, CalledWithTask |-> Nil,
     CalledWithPrompt |-> "", calls |-> <<>>]

CmpIdle == [state |-> "idle", operator |-> "", response |-> "", when |-> "",
            result |-> [match |-> FALSE, err |-> ""]]

EvalIdle == [state |-> "idle", transition |-> [Branches |-> <<>>, OnFailure |-> ""],
             eval |-> "", result |-> [goto |-> "", err |-> "", idx |-> 0]]

Init ==
    /\ chain \in Chains
    /\ input \in Inputs
    /\ dataType \in InputTypes
    /\ ctxCancelled = FALSE
    /\ pc = "call"
    /\ currentTask = NoTask
    /\ output = Nil
    /\ outputType = DataTypeAny
    /\ transitionEval = ""
    /\ taskErr = ""
    /\ retry = 0
    /\ scope = EmptyScope
    /\ events = <<>>
    /\ visited = <<>>
    /\ captured = <<>>
    /\ retOutput = Nil
    /\ retErr = ""
    /\ resolver = Nil
    /\ execCalls = <<>>
    /\ defers = NoDefers
    /\ evalCall = EvalIdle
    /\ cmpCall = CmpIdle
    /\ db = EmptyDB
    /\ exe = AnyExecutor
    /\ parked = NoCall
    /\ mock = MockIdle
    /\ ServicesIdle

\* return out, err
Return(out, err) ==
    /\ pc' = "returned"
    /\ retOutput' = out
    /\ retErr' = err

\* the routing strategy of the chain never looked at
SelectPolicyAlwaysRandom(strategy) == [policy |-> Randomly, err |-> ""]

\* lines 91-98: the resolver policy of the execution
SelectPolicy(strategy) ==
    IF Len(strategy) > 0
    THEN PolicyFromString(strategy)
    ELSE [policy |-> Randomly, err |-> ""]

\* lines 87-112: resolver selection, validation, the first task
Begin ==
    /\ pc = "call"
    /\ scope' = SetVar(EmptyScope, "input", input)
    /\ resolver' = SelectPolicy(chain.RoutingStrategy).policy
    /\ LET policy == SelectPolicy(chain.RoutingStrategy)
           invalid == validateChain(chain.Tasks)
       IN  IF policy.err # ""
           THEN /\ Return(Nil, policy.err)
                /\ UNCHANGED <<currentTask, output, outputType>>
           ELSE IF invalid # ""
           THEN /\ Return(Nil, invalid)
                /\ UNCHANGED <<currentTask, output, outputType>>
           ELSE LET first == findTaskByID(chain.Tasks, chain.Tasks[1].ID)
                IN  /\ currentTask' = first.task
                    /\ output' = input
                    /\ outputType' = dataType
                    /\ pc' = "loop"
                    /\ UNCHANGED <<retOutput, retErr>>
    /\ UNCHANGED <<chain, input, dataType, ctxCancelled, transitionEval,
                   taskErr, retry, events, visited, captured, execCalls,
                   sideVars>>
    /\ Defer

maxRetries == Max(currentTask.RetryOnFailure, 0)

\* every attempt handed the caller's context
TaskCtxOfCaller(timeout) == [parent |-> "", deadline |-> "", serial |-> 0]

\* lines 130-139: taskCtx of an attempt: ctx itself when the task has no
\* timeout, else a new child of ctx (the serial-th context made) that ends at
\* the deadline or when ctx ends
TaskCtx(timeout) ==
    IF timeout = ""
    THEN [parent |-> "", deadline |-> "", serial |-> 0]
    ELSE [parent |-> "ctx", deadline |-> timeout, serial |-> Len(execCalls) + 1]

\* line 149: the arguments of one call of exe.exec.TaskExec
ExecCall(taskCtx) ==
    [ctx |-> taskCtx, resolver |-> resolver, task |-> currentTask.ID,
     payload |-> output, payloadType |-> outputType,
     visit |-> Len(visited), retry |-> retry]

\* retryLoop running once more than it should
RetryLoopCondOneMore(n) == n <= maxRetries + 1

\* line 128: the condition of retryLoop, for the loop variable n
RetryLoopCond(n) == n <= maxRetries

\* the template rendered whatever the type of the payload is
RendersTemplateAnyType == currentTask.Template # ""

\* line 115: the template of the task is rendered for this visit
RendersTemplate == outputType = DataTypeString /\ currentTask.Template # ""

\* an empty rendering let through
RenderFailureEmptyAllowed(r) == IF r.err # "" THEN "template error" ELSE ""

\* lines 117-122: the error ExecEnv returns for the result r of rendering the
\* template of the task, "" when it goes on
RenderFailure(r) ==
    IF r.err # "" THEN "template error"
    ELSE IF r.out = "" THEN "template rendered empty string"
    ELSE ""

\* lines 113-125: the head of the main loop, one task visit begins
RenderStep ==
    /\ pc = "loop"
    /\ Len(visited) < MaxVisits
    /\ visited' = Append(visited, currentTask.ID)
    /\ retry' = 0
    /\ IF RendersTemplate
       THEN LET r == renderTemplate(currentTask.Template, scope)
            IN  /\ output' = r.out
                /\ IF RenderFailure(r) # ""
                   THEN /\ Return(Nil, RenderFailure(r))
                        /\ captured' = RecordStep(captured, currentTask,
                                                  RenderFailure(r))
                   ELSE /\ pc' = "retry"
                        /\ UNCHANGED <<retOutput, retErr, captured>>
       ELSE /\ pc' = "retry"
            /\ UNCHANGED <<output, retOutput, retErr, captured>>
    /\ UNCHANGED <<chain, input, dataType, ctxCancelled, currentTask,
                   outputType, transitionEval, taskErr, scope, events, resolver,
                   execCalls, sideVars>>
    /\ Defer

\* the report of an attempt made before its start
AttemptEventsReportFirst(r) ==
    << IF r.err # ""
       THEN Event("attempt_error", currentTask.ID, "", retry, r.err)
       ELSE Event("attempt_change", currentTask.ID, "", retry, r.output),
       Event("task_attempt", currentTask.ID, "", retry, output) >>

\* lines 141-157: the tracker calls of one attempt with result r: its start,
\* then the report of its error or of its output
AttemptEvents(r) ==
    << Event("task_attempt", currentTask.ID, "", retry, output),
       IF r.err # ""
       THEN Event("attempt_error", currentTask.ID, "", retry, r.err)
       ELSE Event("attempt_change", currentTask.ID, "", retry, r.output) >>

\* a successful attempt repeated while retries remain
AfterAttemptNoBreak(err) ==
    IF RetryLoopCond(retry + 1) THEN "retry" ELSE "after"

\* lines 150-157: where retryLoop goes after an attempt: 'continue retryLoop'
\* on an error, 'break retryLoop' on success
AfterAttempt(err) ==
    IF err # ""
    THEN IF RetryLoopCond(retry + 1) THEN "retry" ELSE "after"
    ELSE "after"

\* the timeout of the task never parsed
TimeoutInvalidNever == FALSE

\* lines 132-136: the task has a timeout that time.ParseDuration rejects
TimeoutInvalid ==
    currentTask.Timeout # "" /\ ~ParseDurationOk(currentTask.Timeout)

\* lines 128-158: one iteration of retryLoop
Attempt ==
    /\ pc = "retry"
    /\ RetryLoopCond(retry)
    /\ IF TimeoutInvalid
       THEN /\ Return(Nil, "invalid timeout")
            /\ captured' = RecordStep(captured, currentTask, "invalid timeout")
            /\ UNCHANGED <<output, outputType, transitionEval, taskErr, retry,
                           events, execCalls>>
       ELSE \E r \in TaskExec(currentTask, output, outputType) :
                /\ execCalls' = Append(execCalls,
                                       ExecCall(TaskCtx(currentTask.Timeout)))
                /\ output' = r.output
                /\ outputType' = r.outputType
                /\ transitionEval' = r.transitionEval
                /\ taskErr' = r.err
                /\ events' = events \o AttemptEvents(r)
                /\ retry' = IF r.err # "" THEN retry + 1 ELSE retry
                /\ pc' = AfterAttempt(r.err)
                /\ UNCHANGED <<retOutput, retErr, captured>>
    /\ UNCHANGED <<chain, input, dataType, ctxCancelled, currentTask, scope,
                   visited, resolver, sideVars>>
    /\ Defer

\* on_failure never looked at
HasOnFailureNever(task) == FALSE

\* line 161: the task names a task to go to when it fails
HasOnFailure(task) == task.Transition.OnFailure # ""

\* a failed task taken for one that succeeded
TaskFailedNever == FALSE

\* line 160: the last attempt of the task failed
TaskFailed == taskErr # ""

\* lines 160-181: the task failed on every attempt
FailureStep ==
    /\ pc = "after"
    /\ TaskFailed
    /\ captured' = RecordStep(captured, currentTask, taskErr)
    /\ IF HasOnFailure(currentTask)
       THEN LET target == findTaskByID(chain.Tasks, currentTask.Transition.OnFailure)
            IN  IF target.err # ""
                THEN /\ Return(Nil, "error transition target not found")
                     /\ currentTask' = target.task
                     /\ UNCHANGED events
                ELSE /\ currentTask' = target.task
                     /\ events' = events \o
                           << Event("next_task", currentTask.ID, target.task.ID, 0,
                                    "error"),
                              Event("next_task_change", currentTask.ID,
                                    target.task.ID, 0, taskErr) >>
                     /\ pc' = "loop"
                     /\ UNCHANGED <<retOutput, retErr>>
       ELSE /\ Return(Nil, "task failed after retries")
            /\ UNCHANGED <<currentTask, events>>
    /\ UNCHANGED <<chain, input, dataType, ctxCancelled, output, outputType,
                   transitionEval, taskErr, retry, scope, visited, resolver,
                   execCalls, sideVars>>
    /\ Defer

\* lines 226-230: look up the next task
NextTask(target) ==
    /\ currentTask' = target.task
    /\ IF target.err # ""
       THEN Return(Nil, "next task not found")
       ELSE /\ pc' = "loop"
            /\ UNCHANGED <<retOutput, retErr>>

\* lines 188-194: the print statement, rendered and written to standard output
Printed(printed) ==
    IF printed.err # ""
    THEN /\ Return(Nil, "print template error")
         /\ UNCHANGED events
    ELSE /\ events' = Append(events,
                             Event("println", currentTask.ID, "", 0, printed.out))
         /\ pc' = "transition"
         /\ UNCHANGED <<retOutput, retErr>>

\* the output stored as previous_output only
UpdateVarsPreviousOnly(m, id, out) == SetVar(m, "previous_output", out)

\* the output stored as the input of the tasks that follow as well
UpdateVarsInputToo(m, id, out) ==
    SetVar(SetVar(SetVar(m, "previous_output", out), id, out), "input", out)

\* lines 184-185: the output of the task stored in vars
UpdateVars(m, id, out) == SetVar(SetVar(m, "previous_output", out), id, out)

\* lines 183-194: the task succeeded: the scope is updated and the print
\* statement handled
ScopeStep ==
    /\ pc = "after"
    /\ ~TaskFailed
    /\ scope' = UpdateVars(scope, currentTask.ID, output)
    /\ captured' = RecordStep(captured, currentTask, "")
    /\ IF currentTask.PrintStmt # ""
       THEN Printed(renderTemplate(currentTask.PrintStmt, scope'))
       ELSE /\ pc' = "transition"
            /\ UNCHANGED <<events, retOutput, retErr>>
    /\ UNCHANGED <<chain, input, dataType, ctxCancelled, currentTask, output,
                   outputType, transitionEval, taskErr, retry, visited, resolver,
                   execCalls, sideVars>>
    /\ Defer

\* only the reserved id ends the execution
IsTerminalEndOnly(nextTaskID) == nextTaskID = TermEnd

\* line 202: the execution ends here
IsTerminal(nextTaskID) == nextTaskID = "" \/ nextTaskID = TermEnd

\* lines 198-230, given the result of evaluateTransitions
Transit(next) ==
    IF next.err # ""
    THEN /\ Return(Nil, "transition error: " \o next.err)
         /\ UNCHANGED <<currentTask, events>>
    ELSE IF IsTerminal(next.goto)
    THEN /\ events' = events \o
               << Event("chain_complete", "chain", "", 0, output),
                  Event("chain_complete_change", "chain", "", 0, output) >>
         /\ Return(output, "")
         /\ UNCHANGED currentTask
    ELSE /\ events' = events \o
               << Event("next_task", currentTask.ID, next.goto, 0, ""),
                  Event("next_task_change", currentTask.ID, next.goto, 0,
                        transitionEval) >>
         /\ NextTask(findTaskByID(chain.Tasks, next.goto))

\* lines 196-231: the transition of the task is evaluated and followed
TransitionStep ==
    /\ pc = "transition"
    /\ Transit(evaluateTransitions(currentTask.Transition, transitionEval))
    /\ UNCHANGED <<chain, input, dataType, ctxCancelled, output, outputType,
                   transitionEval, taskErr, retry, scope, visited, captured,
                   resolver, execCalls, sideVars>>
    /\ Defer

\* the caller cancels ctx while the call is running
Cancel ==
    /\ pc \notin {"call", "returned", "idle"}
    /\ ~ctxCancelled
    /\ ctxCancelled' = TRUE
    /\ UNCHANGED <<chain, input, dataType, pc, currentTask, output, outputType,
                   transitionEval, taskErr, retry, scope, events, visited,
                   captured, retOutput, retErr, resolver, execCalls, defers,
                   sideVars>>

Next ==
    \/ Begin
    \/ RenderStep
    \/ Attempt
    \/ FailureStep
    \/ ScopeStep
    \/ TransitionStep
    \/ Cancel

Spec == Init /\ [][Next]_vars

-----------------------------------------------------------------------------
(* evaluateTransitions on its own: a transition and a value are chosen, and *)
(* the function is applied to them                                          *)

BranchPool ==
    { Branch("default", "", "d1"), Branch("default", "", "d2"),
      Branch("equals", "echo", "e1"), Branch("equals", "73", "e2"),
      Branch(">", "50", "g"), Branch("contains", "ch", "c"),
      Branch("in_range", "0-100", "r"), Branch("matches", "", "u") }

EvalValues == {"echo", "73", "7", ""}

EngineIdle ==
    /\ chain = [RoutingStrategy |-> "", Tasks |-> <<>>]
    /\ input = Nil
    /\ dataType = DataTypeAny
    /\ ctxCancelled = FALSE
    /\ pc = "idle"
    /\ currentTask = NoTask
    /\ output = Nil
    /\ outputType = DataTypeAny
    /\ transitionEval = ""
    /\ taskErr = ""
    /\ retry = 0
    /\ scope = EmptyScope
    /\ events = <<>>
    /\ visited = <<>>
    /\ captured = <<>>
    /\ retOutput = Nil
    /\ retErr = ""
    /\ resolver = Nil
    /\ execCalls = <<>>
    /\ defers = NoDefers

InitEval ==
    /\ EngineIdle
    /\ cmpCall = CmpIdle
    /\ db = EmptyDB
    /\ exe = AnyExecutor
    /\ parked = NoCall
    /\ mock = MockIdle
    /\ ServicesIdle
    /\ \E bs \in SeqsUpTo(BranchPool, MaxBranches), e \in EvalValues :
          evalCall = [state |-> "ready",
                      transition |-> [Branches |-> bs, OnFailure |-> ""],
                      eval |-> e,
                      result |-> [goto |-> "", err |-> "", idx |-> 0]]

EvalApply ==
    /\ evalCall.state = "ready"
    /\ evalCall' = [evalCall EXCEPT
                      !.state = "done",
                      !.result = evaluateTransitions(evalCall.transition,
                                                     evalCall.eval)]
    /\ UNCHANGED <<engineVars, cmpCall, db, exe, parked, mock, serviceVars>>

NextEval == EvalApply

SpecEval == InitEval /\ [][NextEval]_vars

-----------------------------------------------------------------------------
(* compare on its own: numbers are chosen and written as decimal text, and  *)
(* compare is applied to the texts                                          *)

\* a decimal number m / 10^d
Decimal(m, d) == [m |-> m, d |-> d]

MaxTenths == 1

\* -5, 0, 7, 7.5 and 10, and the decimals up to MaxTenths tenths
Decimals ==
    {Decimal(m, 0) : m \in {-5, 0, 7, 10}}
       \cup {Decimal(75, 1)}
       \cup {Decimal(m, 1) : m \in 1..MaxTenths}

DigitText(n) ==
    CASE n = 0 -> "0" [] n = 1 -> "1" [] n = 2 -> "2" [] n = 3 -> "3"
      [] n = 4 -> "4" [] n = 5 -> "5" [] n = 6 -> "6" [] n = 7 -> "7"
      [] n = 8 -> "8" [] n = 9 -> "9"

\* strconv.Itoa of a natural number
RECURSIVE NatText(_)
NatText(n) ==
    IF n < 10 THEN DigitText(n) ELSE NatText(n \div 10) \o DigitText(n % 10)

Abs(n) == IF n < 0 THEN -n ELSE n

\* the text of a decimal: sign, integer part and, for d = 1, one fraction digit
DecimalText(x) ==
    (IF x.m < 0 THEN "-" ELSE "")
       \o (IF x.d = 0 THEN NatText(Abs(x.m))
           ELSE NatText(Abs(x.m) \div 10) \o "." \o DigitText(Abs(x.m) % 10))

\* the number in tenths
Tenths(x) == IF x.d = 0 THEN 10 * x.m ELSE x.m

NumericOperators == {OpInRange, OpGreaterThan, OpGt, OpLessThan, OpLt}

\* the call compare(operator, value, when) for the numbers lo, hi and value:
\* when is "lo-hi" for in_range, and lo for the other operators
CompareCall(operator, lo, hi, value) ==
    [state |-> "ready", operator |-> operator, lo |-> lo, hi |-> hi,
     value |-> value, response |-> DecimalText(value),
     when |-> IF operator = OpInRange
              THEN DecimalText(lo) \o "-" \o DecimalText(hi)
              ELSE DecimalText(lo),
     result |-> [match |-> FALSE, err |-> ""]]

InitCompare ==
    /\ EngineIdle
    /\ evalCall = EvalIdle
    /\ db = EmptyDB
    /\ exe = AnyExecutor
    /\ parked = NoCall
    /\ mock = MockIdle
    /\ ServicesIdle
    /\ \E operator \in NumericOperators, lo \in Decimals, hi \in Decimals,
          value \in Decimals :
          cmpCall = CompareCall(operator, lo, hi, value)

CompareApply ==
    /\ cmpCall.state = "ready"
    /\ cmpCall' = [cmpCall EXCEPT
                     !.state = "done",
                     !.result = compare(cmpCall.operator, cmpCall.response,
                                        cmpCall.when)]
    /\ UNCHANGED <<engineVars, evalCall, db, exe, parked, mock, serviceVars>>

NextCompare == CompareApply

SpecCompare == InitCompare /\ [][NextCompare]_vars

-----------------------------------------------------------------------------
(* The chain store of package tasksrecipes on the kv table of package store. *)
(* A JSON object is the sequence of its members; the rows of the table are  *)
(* kept newest first, the order of 'ORDER BY created_at DESC'.              *)

OpenAIChatChainID == "openai_chat_chain"
StandardChatChainID == "chat_chain"

ChainKeyPrefix == "chain:"

\* the key without the prefix
ChainKeyBare(id) == id

\* ChainKeyPrefix + id
ChainKey(id) == ChainKeyPrefix \o id

ErrNotFound == "not found"

Member(name, value) == [name |-> name, value |-> value]

\* a member left out when its value is the empty string
OmitEmpty(name, value) == IF value = "" THEN <<>> ELSE <<Member(name, value)>>

\* the value of the member of that name, zero when there is none
FieldOf(object, name, zero) ==
    LET at == {i \in 1..Len(object) : object[i].name = name}
    IN  IF at = {} THEN zero ELSE object[CHOOSE i \in at : TRUE].value

MarshalBranch(b) ==
    << Member("operator", b.Operator), Member("when", b.When),
       Member("goto", b.Goto) >>

UnmarshalBranch(o) ==
    Branch(FieldOf(o, "operator", ""), FieldOf(o, "when", ""),
           FieldOf(o, "goto", ""))

MarshalTransition(t) ==
    OmitEmpty("on_failure", t.OnFailure)
       \o << Member("branches",
                    [i \in 1..Len(t.Branches) |-> MarshalBranch(t.Branches[i])]) >>

UnmarshalBranches(a) == [i \in 1..Len(a) |-> UnmarshalBranch(a[i])]

\* a task written without its print statement
MarshalTaskNoPrint(t) ==
    << Member("id", t.ID), Member("type", t.Type) >>
       \o OmitEmpty("template", t.Template)
       \o OmitEmpty("timeout", t.Timeout)
       \o << Member("retry_on_failure", t.RetryOnFailure) >>
       \o << Member("transition", MarshalTransition(t.Transition)) >>

MarshalTask(t) ==
    << Member("id", t.ID), Member("type", t.Type) >>
       \o OmitEmpty("template", t.Template)
       \o OmitEmpty("timeout", t.Timeout)
       \o << Member("retry_on_failure", t.RetryOnFailure) >>
       \o OmitEmpty("print", t.PrintStmt)
       \o << Member("transition", MarshalTransition(t.Transition)) >>

UnmarshalTask(o) ==
    [ID |-> FieldOf(o, "id", ""), Type |-> FieldOf(o, "type", ""),
     Template |-> FieldOf(o, "template", ""),
     Timeout |-> FieldOf(o, "timeout", ""),
     RetryOnFailure |-> FieldOf(o, "retry_on_failure", 0),
     PrintStmt |-> FieldOf(o, "print", ""),
     Transition |->
        [Branches |-> UnmarshalBranches(FieldOf(FieldOf(o, "transition", <<>>),
                                                "branches", <<>>)),
         OnFailure |-> FieldOf(FieldOf(o, "transition", <<>>), "on_failure", "")]]

ChainDefinition(id, routingStrategy, tasks) ==
    [ID |-> id, RoutingStrategy |-> routingStrategy, Tasks |-> tasks]

\* json.Marshal of a chain
Marshal(c) ==
    << Member("id", c.ID), Member("routing_strategy", c.RoutingStrategy),
       Member("tasks", [i \in 1..Len(c.Tasks) |-> MarshalTask(c.Tasks[i])]) >>

UnmarshalTasks(a) == [i \in 1..Len(a) |-> UnmarshalTask(a[i])]

\* json.Unmarshal into a chain
Unmarshal(o) ==
    ChainDefinition(FieldOf(o, "id", ""), FieldOf(o, "routing_strategy", ""),
                    UnmarshalTasks(FieldOf(o, "tasks", <<>>)))

\* the positions of the rows with that key
RowsOf(kv, key) == {i \in 1..Len(kv) : kv[i].key = key}

\* store.SetKV: insert, or on conflict replace the value of the row
SetKV(kv, key, value) ==
    IF RowsOf(kv, key) = {}
    THEN <<[key |-> key, value |-> value]>> \o kv
    ELSE [i \in 1..Len(kv) |->
             IF kv[i].key = key THEN [key |-> key, value |-> value] ELSE kv[i]]

\* store.GetKV: the value of the row, libdb.ErrNotFound without a row
GetKV(kv, key) ==
    IF RowsOf(kv, key) = {}
    THEN [value |-> <<>>, err |-> ErrNotFound]
    ELSE [value |-> kv[CHOOSE i \in RowsOf(kv, key) : TRUE].value, err |-> ""]

\* store.DeleteKV: the table without the row, and the error of
\* checkRowsAffected when no row was deleted
DeleteKV(kv, key) ==
    [kv |-> SelectSeq(kv, LAMBDA row : row.key # key),
     err |-> IF RowsOf(kv, key) = {} THEN ErrNotFound ELSE ""]

\* store.ListKVPrefix: the rows whose key is LIKE prefix || '%'
ListKVPrefix(kv, prefix) == SelectSeq(kv, LAMBDA row : HasPrefix(row.key, prefix))

MaxStoreTasks == 1

StoreIDs == {StandardChatChainID, "c2"}

StoreTasks ==
    { ChainTask("a", "", "", 2, "", <<Branch("default", "", "end")>>, ""),
      ChainTask("a", "{{.input}}", "50ms", 0, "{{.a}}!",
                <<Branch("default", "", "b")>>, "b"),
      HookTask("b", "", "", 1, "", <<>>, "") }

StoreChains ==
    {ChainDefinition(id, r, ts) :
        id \in StoreIDs, r \in {"", "round_robin"},
        ts \in SeqsUpTo(StoreTasks, MaxStoreTasks)}

\* what the callers have stored and not deleted: [id, chain], in no order
Remember(stored, c) ==
    SelectSeq(stored, LAMBDA e : e.id # c.ID) \o <<[id |-> c.ID, chain |-> c]>>
Forget(stored, id) == SelectSeq(stored, LAMBDA e : e.id # id)

InitStore ==
    /\ EngineIdle
    /\ evalCall = EvalIdle
    /\ cmpCall = CmpIdle
    /\ db = EmptyDB
    /\ exe = AnyExecutor
    /\ parked = NoCall
    /\ mock = MockIdle
    /\ ServicesIdle

SetChainDefinition ==
    \E c \in StoreChains :
       /\ db' = [kv |-> SetKV(db.kv, ChainKey(c.ID), Marshal(c)),
                 stored |-> Remember(db.stored, c),
                 last |-> [op |-> "set", id |-> c.ID, err |-> ""]]
       /\ UNCHANGED <<engineVars, evalCall, cmpCall, exe, parked, mock, serviceVars>>

GetChainDefinition ==
    \E id \in StoreIDs :
       /\ LET got == GetKV(db.kv, ChainKey(id))
          IN  db' = [db EXCEPT !.last =
                       IF got.err # ""
                       THEN [op |-> "get", id |-> id, err |-> got.err]
                       ELSE [op |-> "get", id |-> id, err |-> "",
                             chain |-> Unmarshal(got.value)]]
       /\ UNCHANGED <<engineVars, evalCall, cmpCall, exe, parked, mock, serviceVars>>

ListChainDefinitions ==
    /\ LET kvs == ListKVPrefix(db.kv, ChainKeyPrefix)
       IN  db' = [db EXCEPT !.last =
                    [op |-> "list", err |-> "",
                     chains |-> [i \in 1..Len(kvs) |-> Unmarshal(kvs[i].value)]]]
    /\ UNCHANGED <<engineVars, evalCall, cmpCall, exe, parked, mock, serviceVars>>

DeleteChainDefinition ==
    \E id \in StoreIDs :
       /\ LET deleted == DeleteKV(db.kv, ChainKey(id))
          IN  db' = [kv |-> deleted.kv,
                    stored |-> Forget(db.stored, id),
                    last |-> [op |-> "delete", id |-> id, err |-> deleted.err]]
       /\ UNCHANGED <<engineVars, evalCall, cmpCall, exe, parked, mock, serviceVars>>

NextStore ==
    \/ SetChainDefinition
    \/ GetChainDefinition
    \/ ListChainDefinitions
    \/ DeleteChainDefinition

SpecStore == InitStore /\ [][NextStore]_vars

-----------------------------------------------------------------------------
(* The default chains of package tasksrecipes, written at start-up.  Of a   *)
(* task the model keeps the fields of ChainTask above; the description and  *)
(* the arguments of the hook are left out.                                  *)

DefaultTask(id, branches) == HookTask(id, "", "", 0, "", branches, "")

BuildOpenAIChatChain ==
    ChainDefinition(OpenAIChatChainID, "",
        << DefaultTask("convert_openai_to_history",
                       <<Branch("default", "", "execute_model_on_messages")>>),
           DefaultTask("execute_model_on_messages",
                       <<Branch("default", "", "convert_history_to_openai")>>),
           DefaultTask("convert_history_to_openai",
                       <<Branch("default", "", TermEnd)>>) >>)

BuildChatChain ==
    ChainDefinition(StandardChatChainID, "",
        << DefaultTask("append_user_message",
                       <<Branch("default", "", "preappend_message_to_history")>>),
           DefaultTask("preappend_message_to_history",
                       <<Branch("default", "", "mux_input")>>),
           DefaultTask("mux_input",
                       << Branch("default", "", "execute_model_on_messages"),
                          Branch("equals", "echo", "persist_messages") >>),
           DefaultTask("execute_model_on_messages",
                       <<Branch("default", "", "persist_messages")>>),
           DefaultTask("persist_messages", <<Branch("default", "", TermEnd)>>) >>)

\* the key initializeDefaultChains looks a default chain up under: chain.ID
DefaultLookupKey(id) == id

\* one round of the loop of initializeDefaultChains: the chain is written
\* when GetKV finds no row
StoreDefault(d, c) ==
    IF GetKV(d.kv, DefaultLookupKey(c.ID)).err = ErrNotFound
    THEN [kv |-> SetKV(d.kv, ChainKey(c.ID), Marshal(c)),
          stored |-> Remember(d.stored, c)]
    ELSE d

initializeDefaultChains ==
    /\ LET chains == <<BuildOpenAIChatChain, BuildChatChain>>
           first == StoreDefault([kv |-> db.kv, stored |-> db.stored], chains[1])
           second == StoreDefault(first, chains[2])
       IN  db' = [kv |-> second.kv, stored |-> second.stored,
                  last |-> [op |-> "init", err |-> ""]]
    /\ UNCHANGED <<engineVars, evalCall, cmpCall, exe, parked, mock, serviceVars>>

NextDefaults ==
    \/ initializeDefaultChains
    \/ SetChainDefinition
    \/ GetChainDefinition
    \/ DeleteChainDefinition

SpecDefaults == InitStore /\ [][NextDefaults]_vars

-----------------------------------------------------------------------------
(* Two ExecEnv calls on one SimpleEnv.  The variables of the engine are the *)
(* locals of the call that is running; the locals of the other call are kept*)
(* in parked, and Switch hands the processor from one call to the other.    *)

\* the locals of the running call; it is the call that is not parked
Locals ==
    [who |-> 3 - parked.who, chain |-> chain, input |-> input,
     dataType |-> dataType, ctxCancelled |-> ctxCancelled, pc |-> pc,
     currentTask |-> currentTask, output |-> output, outputType |-> outputType,
     transitionEval |-> transitionEval, taskErr |-> taskErr, retry |-> retry,
     scope |-> scope, events |-> events, visited |-> visited,
     captured |-> captured, retOutput |-> retOutput, retErr |-> retErr,
     resolver |-> resolver, execCalls |-> execCalls, defers |-> defers]

\* the locals of a call that has not started
NewCall(who, c, in, dt) ==
    [who |-> who, chain |-> c, input |-> in, dataType |-> dt,
     ctxCancelled |-> FALSE, pc |-> "call", currentTask |-> NoTask,
     output |-> Nil, outputType |-> DataTypeAny, transitionEval |-> "",
     taskErr |-> "", retry |-> 0, scope |-> EmptyScope, events |-> <<>>,
     visited |-> <<>>, captured |-> <<>>, retOutput |-> Nil, retErr |-> "",
     resolver |-> Nil, execCalls |-> <<>>, defers |-> NoDefers]

ConcTasks ==
    { ChainTask("a", "", "", 2, "", <<Branch("default", "", "end")>>, ""),
      ChainTask("a", "{{.input}}", "50ms", 0, "{{.a}}!",
                <<Branch("default", "", "b")>>, ""),
      ChainTask("b", "", "50ms", 1, "", <<Branch("equals", "73", "a")>>, "a"),
      ChainTask("b", "{{.a}} of {{.input}}", "", 1, "",
                <<Branch("default", "", "end")>>, "") }

ConcChains ==
    {[RoutingStrategy |-> "", Tasks |-> ts] :
        ts \in SeqsUpTo(ConcTasks, MaxTasks) \ {<<>>}}

\* the second call: a chain that renders its scope, or one that retries
SecondCalls ==
    { NewCall(2, [RoutingStrategy |-> "",
                  Tasks |-> << ChainTask("a", "{{.input}}", "50ms", 0, "{{.a}}!",
                                         <<Branch("default", "", "b")>>, ""),
                               ChainTask("b", "{{.a}} of {{.input}}", "", 1, "",
                                         <<Branch("default", "", "end")>>, "") >>],
              "hi", DataTypeString),
      NewCall(2, [RoutingStrategy |-> "",
                  Tasks |-> << ChainTask("a", "", "", 2, "",
                                         <<Branch("default", "", "end")>>, "") >>],
              "", DataTypeAny) }

InitConc ==
    /\ chain \in ConcChains
    /\ input \in Inputs
    /\ dataType \in InputTypes
    /\ ctxCancelled = FALSE
    /\ pc = "call"
    /\ currentTask = NoTask
    /\ output = Nil
    /\ outputType = DataTypeAny
    /\ transitionEval = ""
    /\ taskErr = ""
    /\ retry = 0
    /\ scope = EmptyScope
    /\ events = <<>>
    /\ visited = <<>>
    /\ captured = <<>>
    /\ retOutput = Nil
    /\ retErr = ""
    /\ resolver = Nil
    /\ execCalls = <<>>
    /\ defers = NoDefers
    /\ evalCall = EvalIdle
    /\ cmpCall = CmpIdle
    /\ db = EmptyDB
    /\ exe = StatelessExecutor
    /\ parked \in SecondCalls
    /\ mock = MockIdle
    /\ ServicesIdle

\* one vars map used by both calls
ScopeShared(mine, theirs) == mine

\* lines 87-89: vars is a map made by the call, so the call that takes the
\* processor finds its own map
ScopeOfCall(mine, theirs) == theirs

\* the running call is suspended and the parked call runs on
Switch ==
    /\ parked.who # 0
    /\ parked' = Locals
    /\ chain' = parked.chain
    /\ input' = parked.input
    /\ dataType' = parked.dataType
    /\ ctxCancelled' = parked.ctxCancelled
    /\ pc' = parked.pc
    /\ currentTask' = parked.currentTask
    /\ output' = parked.output
    /\ outputType' = parked.outputType
    /\ transitionEval' = parked.transitionEval
    /\ taskErr' = parked.taskErr
    /\ retry' = parked.retry
    /\ scope' = ScopeOfCall(scope, parked.scope)
    /\ events' = parked.events
    /\ visited' = parked.visited
    /\ captured' = parked.captured
    /\ retOutput' = parked.retOutput
    /\ retErr' = parked.retErr
    /\ resolver' = parked.resolver
    /\ execCalls' = parked.execCalls
    /\ defers' = parked.defers
    /\ UNCHANGED <<evalCall, cmpCall, db, exe, mock, serviceVars>>

NextConc ==
    \/ Begin
    \/ RenderStep
    \/ Attempt
    \/ FailureStep
    \/ ScopeStep
    \/ TransitionStep
    \/ Switch

SpecConc == InitConc /\ [][NextConc]_vars

-----------------------------------------------------------------------------
(* ExecEnv run alone with the executor StatelessExec, as a function of the  *)
(* locals L of the call                                                     *)

Ret(L, out, err) ==
    [L EXCEPT !.pc = "returned", !.retOutput = out, !.retErr = err]

Started(L, invalid, first) ==
    IF invalid # "" THEN Ret(L, Nil, invalid)
    ELSE [L EXCEPT !.currentTask = first.task, !.output = L.input,
                   !.outputType = L.dataType, !.pc = "loop"]

\* lines 87-112
BeginAlone(L, policy) ==
    IF policy.err # ""
    THEN Ret([L EXCEPT !.scope = SetVar(EmptyScope, "input", L.input)],
             Nil, policy.err)
    ELSE Started([L EXCEPT !.scope = SetVar(EmptyScope, "input", L.input),
                           !.resolver = policy.policy],
                 validateChain(L.chain.Tasks),
                 IF Len(L.chain.Tasks) = 0 THEN [task |-> NoTask, err |-> ""]
                 ELSE findTaskByID(L.chain.Tasks, L.chain.Tasks[1].ID))

Rendered(L, r) ==
    IF r.err # "" THEN Ret([L EXCEPT !.output = r.out], Nil, "template error")
    ELSE IF r.out = ""
    THEN Ret([L EXCEPT !.output = r.out], Nil, "template rendered empty string")
    ELSE [L EXCEPT !.output = r.out, !.pc = "retry"]

\* lines 113-125
RenderAlone(L) ==
    IF L.outputType = DataTypeString /\ L.currentTask.Template # ""
    THEN Rendered([L EXCEPT !.visited = Append(@, L.currentTask.ID), !.retry = 0],
                  renderTemplate(L.currentTask.Template, L.scope))
    ELSE [L EXCEPT !.visited = Append(@, L.currentTask.ID), !.retry = 0,
                   !.pc = "retry"]

Attempted(L, r) ==
    [L EXCEPT !.output = r.output, !.outputType = r.outputType,
              !.transitionEval = r.transitionEval, !.taskErr = r.err,
              !.retry = IF r.err # "" THEN @ + 1 ELSE @,
              !.pc = IF r.err # ""
                        /\ L.retry + 1 <= Max(L.currentTask.RetryOnFailure, 0)
                     THEN "retry" ELSE "after"]

\* lines 128-158
AttemptAlone(L) ==
    IF L.currentTask.Timeout # "" /\ ~ParseDurationOk(L.currentTask.Timeout)
    THEN Ret(L, Nil, "invalid timeout")
    ELSE Attempted(L, StatelessExec(L.currentTask, L.output, L.outputType))

Moved(L, target, err) ==
    IF target.err # "" THEN Ret([L EXCEPT !.currentTask = target.task], Nil, err)
    ELSE [L EXCEPT !.currentTask = target.task, !.pc = "loop"]

\* lines 160-181
FailureAlone(L) ==
    IF L.currentTask.Transition.OnFailure # ""
    THEN Moved(L, findTaskByID(L.chain.Tasks, L.currentTask.Transition.OnFailure),
               "error transition target not found")
    ELSE Ret(L, Nil, "task failed after retries")

PrintedAlone(L, printed) ==
    IF printed.err # "" THEN Ret(L, Nil, "print template error")
    ELSE [L EXCEPT !.pc = "transition"]

\* lines 183-194
ScopeAlone(L) ==
    IF L.currentTask.PrintStmt # ""
    THEN PrintedAlone(L, renderTemplate(L.currentTask.PrintStmt, L.scope))
    ELSE [L EXCEPT !.pc = "transition"]

ScopeUpdated(L) ==
    [L EXCEPT !.scope = SetVar(SetVar(@, "previous_output", L.output),
                               L.currentTask.ID, L.output)]

\* lines 196-231
TransitAlone(L, next) ==
    IF next.err # "" THEN Ret(L, Nil, "transition error: " \o next.err)
    ELSE IF next.goto = "" \/ next.goto = TermEnd THEN Ret(L, L.output, "")
    ELSE Moved(L, findTaskByID(L.chain.Tasks, next.goto), "next task not found")

\* one step of the call; a call at the bound of visits, or returned, stays
StepAlone(L) ==
    CASE L.pc = "call" -> BeginAlone(L, SelectPolicy(L.chain.RoutingStrategy))
      [] L.pc = "loop" /\ Len(L.visited) < MaxVisits -> RenderAlone(L)
      [] L.pc = "retry" -> AttemptAlone(L)
      [] L.pc = "after" /\ L.taskErr # "" -> FailureAlone(L)
      [] L.pc = "after" /\ L.taskErr = "" -> ScopeAlone(ScopeUpdated(L))
      [] L.pc = "transition" ->
            TransitAlone(L, evaluateTransitions(L.currentTask.Transition,
                                                L.transitionEval))
      [] OTHER -> L

RECURSIVE RunAlone(_, _)
RunAlone(L, fuel) ==
    IF fuel = 0 \/ L.pc = "returned" THEN L ELSE RunAlone(StepAlone(L), fuel - 1)

\* enough steps for MaxVisits visits of three attempts each
RunFuel == 6 * MaxVisits + 2

-----------------------------------------------------------------------------
(* Properties of ExecEnv *)

\* positions in events of the task_attempt starts of visit v
AttemptsOf(v) ==
    {i \in 1..Len(events) :
        events[i].kind = "task_attempt" /\ events[i].visit = v}

NumAttempts ==
    Cardinality({i \in 1..Len(events) : events[i].kind = "task_attempt"})

Kinds(evs) == [i \in 1..Len(evs) |-> evs[i].kind]

Exhausted == pc = "after" /\ taskErr # ""

OnFailureTarget == findTaskByID(chain.Tasks, currentTask.Transition.OnFailure)

\* C1: a visit of a task with retry_on_failure = N >= 0 never has more than
\* N+1 task_attempt events; when every attempt has failed it has exactly N+1
\* of them, and the step that follows either moves to the on_failure target
\* (on_failure set, naming a task) or returns an error (always so when
\* on_failure is not set).
C1_RetryExhaustion ==
    /\ [](pc \in {"retry", "after"} /\ currentTask.RetryOnFailure >= 0
            => Cardinality(AttemptsOf(Len(visited)))
                 <= currentTask.RetryOnFailure + 1)
    /\ [][Exhausted /\ currentTask.RetryOnFailure >= 0 /\ pc' # pc
            => /\ Cardinality(AttemptsOf(Len(visited)))
                    = currentTask.RetryOnFailure + 1
               /\ NumAttempts' = NumAttempts
               /\ \/ /\ pc' = "loop"
                     /\ currentTask.Transition.OnFailure # ""
                     /\ currentTask' = OnFailureTarget.task
                     /\ currentTask'.ID = currentTask.Transition.OnFailure
                  \/ /\ pc' = "returned"
                     /\ retErr' # ""
               /\ currentTask.Transition.OnFailure = ""
                    => pc' = "returned" /\ retErr' = "task failed after retries"
               /\ (currentTask.Transition.OnFailure # "" /\ OnFailureTarget.err = "")
                    => pc' = "loop"]_vars

C1_Witness ==
    /\ pc = "returned"
    /\ retErr = "task failed after retries"
    /\ currentTask.RetryOnFailure = 2
    /\ Cardinality(AttemptsOf(Len(visited))) = 3

\* C2: when a task has failed on all attempts and its on_failure names a task
\* of the chain, the execution goes on at that task and no error is
\* returned for the failure; whatever the execution returns afterwards comes
\* from a later visit.
C2_OnFailureContinues ==
    /\ [][(Exhausted /\ currentTask.Transition.OnFailure # ""
              /\ OnFailureTarget.err = "" /\ pc' # pc)
            => /\ pc' = "loop"
               /\ currentTask' = OnFailureTarget.task
               /\ retErr' = ""
               /\ Kinds(SubSeq(events', Len(events) + 1, Len(events')))
                    = <<"next_task", "next_task_change">>
               /\ events'[Len(events) + 1].next = currentTask.Transition.OnFailure
               /\ events'[Len(events) + 1].payload = "error"]_vars
    /\ [](pc = "returned"
            => \A i \in 1..Len(events) :
                  (events[i].kind = "next_task" /\ events[i].payload = "error")
                    => Len(visited) > events[i].visit)

C2_Witness ==
    /\ pc = "returned"
    /\ retErr = ""
    /\ \E i \in 1..Len(events) :
          events[i].kind = "next_task" /\ events[i].payload = "error"

\* C3: once ctx is cancelled no further task_attempt is started.
C3_NoAttemptAfterCancel ==
    [][ctxCancelled => NumAttempts' = NumAttempts]_vars

InvalidIDs(tasks) ==
    Len(tasks) = 0 \/ \E i \in 1..Len(tasks) : tasks[i].ID \in {"", TermEnd}

Rejected ==
    /\ pc = "returned"
    /\ retErr # ""
    /\ events = <<>>
    /\ visited = <<>>

\* C4: a chain with an empty task list, or with a task whose id is "" or
\* "end", is rejected before any task attempt.
C4_InvalidChainRejected ==
    (pc \notin {"call", "idle"} /\ InvalidIDs(chain.Tasks)) => Rejected

C4_Witness ==
    /\ Rejected
    /\ retErr = "task ID cannot be 'end'"
    /\ Len(chain.Tasks) = 2
    /\ chain.Tasks[1].ID = "a"

DuplicateIDs(tasks) ==
    \E i, j \in 1..Len(tasks) : i # j /\ tasks[i].ID = tasks[j].ID

\* C5: a chain in which two tasks have the same id is rejected before any
\* task attempt.
C5_DuplicateIDsRejected ==
    (pc \notin {"call", "idle"} /\ DuplicateIDs(chain.Tasks)) => Rejected

TaskIDs == {chain.Tasks[i].ID : i \in 1..Len(chain.Tasks)}

\* C6: in an execution of a chain that passed validation every goto that is
\* followed is "end" or the id of a task of the chain, and the execution
\* never ends with a 'task not found' error.
C6_GotoResolves ==
    /\ retErr \notin {"next task not found", "error transition target not found"}
    /\ \A i \in 1..Len(events) :
          events[i].kind = "next_task" => events[i].next \in TaskIDs \cup {TermEnd}

-----------------------------------------------------------------------------
(* Properties of evaluateTransitions, on a finished call *)

EvalBranches == evalCall.transition.Branches

Compared(i) == compare(EvalBranches[i].Operator, evalCall.eval, EvalBranches[i].When)

NonDefault == {i \in 1..Len(EvalBranches) : EvalBranches[i].Operator # "default"}

\* the non-default branches whose comparison is true, and those whose
\* comparison fails with an error
Matching == {i \in NonDefault : Compared(i).err = "" /\ Compared(i).match}
Failing == {i \in NonDefault : Compared(i).err # ""}

Least(S) == CHOOSE i \in S : \A j \in S : i <= j

ReturnsBranch(i) ==
    /\ evalCall.result.err = ""
    /\ evalCall.result.idx = i
    /\ evalCall.result.goto = EvalBranches[i].Goto

ReturnsDefault ==
    /\ evalCall.result.err = ""
    /\ evalCall.result.idx # 0
    /\ EvalBranches[evalCall.result.idx].Operator = "default"

\* C8 as stated: the goto of the first non-default branch whose comparison is
\* true is returned, and a default branch's goto only when there is no such
\* branch.
C8_FirstMatchWins ==
    evalCall.state = "done"
      => /\ Matching # {} => ReturnsBranch(Least(Matching))
         /\ ReturnsDefault => Matching = {}

\* C8 amended: the goto of the first non-default branch whose comparison is
\* true is returned unless the comparison of a non-default branch before it
\* fails with an error, and then that error is returned; a default branch's
\* goto is returned only when no non-default branch matches or fails,
\* wherever the default branch stands.
C8_FirstMatchWinsUnlessError ==
    evalCall.state = "done"
      => /\ (Matching # {} /\ \A j \in Failing : Least(Matching) < j)
              => ReturnsBranch(Least(Matching))
         /\ (Failing # {} /\ \A i \in Matching : Least(Failing) < i)
              => evalCall.result.err = Compared(Least(Failing)).err
         /\ ReturnsDefault => Matching = {} /\ Failing = {}
         /\ (Matching = {} /\ Failing = {}
               /\ \E i \in 1..Len(EvalBranches) : i \notin NonDefault)
              => ReturnsDefault

C8_Witness ==
    /\ evalCall.state = "done"
    /\ Len(EvalBranches) = 2
    /\ EvalBranches[1].Operator = "default"
    /\ Matching = {2}
    /\ ReturnsBranch(2)

-----------------------------------------------------------------------------
(* Properties of the step after a successful task *)

AtTransition == pc = "transition"

TaskBranches == currentTask.Transition.Branches

NoBranchApplies ==
    \A i \in 1..Len(TaskBranches) :
        /\ TaskBranches[i].Operator # "default"
        /\ compare(TaskBranches[i].Operator, transitionEval, TaskBranches[i].When)
             = CmpResult(FALSE, "")

\* C9: when a task has succeeded, no non-default branch matches and there is
\* no default branch, the execution returns the transition error 'no
\* matching transition found': no attempt is added, the on_failure target is
\* not followed, no task is started.
C9_NoMatchIsFatal ==
    /\ [][(AtTransition /\ NoBranchApplies /\ pc' # pc)
            => /\ pc' = "returned"
               /\ retErr' = "transition error: no matching transition found"
               /\ events' = events
               /\ visited' = visited
               /\ currentTask' = currentTask]_vars
    /\ [][pc # "returned"]_vars

C9_Witness ==
    /\ pc = "returned"
    /\ retErr = "transition error: no matching transition found"
    /\ currentTask.RetryOnFailure > 0
    /\ currentTask.Transition.OnFailure \in TaskIDs
    /\ NoBranchApplies
    /\ transitionEval = "echo"

Selection == evaluateTransitions(currentTask.Transition, transitionEval)

\* the execution was one visit of a task without template rendering, whose
\* single attempt returned the payload it was given
RawPassthrough ==
    /\ Len(visited) = 1
    /\ NumAttempts = 1
    /\ currentTask.Template = "" \/ dataType # DataTypeString
    /\ Kinds(events) = <<"task_attempt", "attempt_change", "chain_complete",
                         "chain_complete_change">>
    /\ events[2].payload = events[1].payload

\* C10: when the transition of a successful task evaluates to "" or "end",
\* chain_complete is emitted, no task is started and the task's output is
\* returned without error; after a single raw passthrough task the output
\* returned is the chain input.
C10_EndReturnsOutput ==
    /\ [][(AtTransition /\ Selection.err = ""
             /\ Selection.goto \in {"", TermEnd} /\ pc' # pc)
            => /\ pc' = "returned"
               /\ retErr' = ""
               /\ retOutput' = output
               /\ NumAttempts' = NumAttempts
               /\ visited' = visited
               /\ Kinds(SubSeq(events', Len(events) + 1, Len(events')))
                    = <<"chain_complete", "chain_complete_change">>
               /\ events'[Len(events')].payload = output]_vars
    /\ []((pc = "returned" /\ retErr = "" /\ RawPassthrough) => retOutput = input)

C10_Witness ==
    /\ pc = "returned"
    /\ retErr = ""
    /\ Selection.goto = ""
    /\ retOutput = "73"
    /\ input = "hello"

C10_WitnessPassthrough ==
    /\ pc = "returned"
    /\ retErr = ""
    /\ RawPassthrough
    /\ retOutput = "hello"

-----------------------------------------------------------------------------
(* Properties of the attempts of a task *)

\* C11: after an attempt has failed with the error of an unknown hook, the
\* same visit of the task has no further attempt, whatever retry_on_failure
\* is.
C11_UnknownHookNotRetried ==
    \A i \in 1..Len(events) : \A j \in 1..Len(events) :
        (/\ events[i].kind = "attempt_error"
         /\ events[i].payload = UnknownHookError
         /\ j > i
         /\ events[j].kind = "task_attempt")
        => events[j].visit # events[i].visit

\* whether some step adds a call of the executor
Calls == Len(execCalls') = Len(execCalls) + 1

LastCall == execCalls'[Len(execCalls')]

DeadlineExpired == Calls /\ taskErr' = DeadlineExceeded

\* C12: an attempt of a task with a timeout is handed a context of its own,
\* a child of the caller's context bounded by that timeout (a task without
\* timeout is handed the caller's context); an attempt that ends by deadline
\* expiry adds one task_attempt and one error report, and the next attempt of
\* the visit follows while retries remain; after it, a task with
\* retry_on_failure = 0 and no on_failure has had one attempt and the
\* execution returns the error of a failed task.
C12_TimeoutIsOneFailedAttempt ==
    /\ [][Calls =>
            /\ (currentTask.Timeout # "" =>
                  /\ LastCall.ctx.parent = "ctx"
                  /\ LastCall.ctx.deadline = currentTask.Timeout
                  /\ \A i \in 1..Len(execCalls) :
                        execCalls[i].ctx.serial # LastCall.ctx.serial)
            /\ (currentTask.Timeout = "" => LastCall.ctx.parent = "")]_vars
    /\ [][DeadlineExpired =>
            /\ Kinds(SubSeq(events', Len(events) + 1, Len(events')))
                 = <<"task_attempt", "attempt_error">>
            /\ events'[Len(events')].payload = DeadlineExceeded
            /\ retry' = retry + 1
            /\ (retry < currentTask.RetryOnFailure <=> pc' = "retry")
            /\ (retry >= currentTask.RetryOnFailure <=> pc' = "after")]_vars
    /\ [][(/\ pc = "retry"
           /\ taskErr = DeadlineExceeded
           /\ retry > 0
           /\ pc' # pc \/ retry' # retry)
            => Calls /\ LastCall.retry = retry /\ visited' = visited]_vars
    /\ [][(/\ pc = "after"
           /\ taskErr = DeadlineExceeded
           /\ currentTask.RetryOnFailure = 0
           /\ currentTask.Transition.OnFailure = ""
           /\ pc' # pc)
            => /\ pc' = "returned"
               /\ retErr' = "task failed after retries"
               /\ Cardinality(AttemptsOf(Len(visited))) = 1
               /\ events' = events]_vars

C12_Witness ==
    /\ pc = "returned"
    /\ retErr = "task failed after retries"
    /\ taskErr = DeadlineExceeded
    /\ currentTask.RetryOnFailure = 0
    /\ currentTask.Timeout = "50ms"
    /\ Cardinality(AttemptsOf(Len(visited))) = 1

\* a timed-out attempt followed by the retry of the same visit
C12_WitnessRetry ==
    /\ Len(execCalls) >= 2
    /\ execCalls[1].ctx.deadline = "50ms"
    /\ execCalls[2].ctx.deadline = "50ms"
    /\ execCalls[2].visit = execCalls[1].visit
    /\ execCalls[2].retry = 1
    /\ Len(events) >= 2
    /\ events[2].payload = DeadlineExceeded

-----------------------------------------------------------------------------
(* Order of the tracker events of one execution *)

IsKind(i, kinds) == events[i].kind \in kinds

Reports == {"attempt_error", "attempt_change"}
Moves == {"next_task", "chain_complete"}

\* C13: every task_attempt start is followed at once by the report of that
\* attempt; the reports of a visit come before the next_task or
\* chain_complete event of the visit, and the attempts of a later visit
\* after it; the attempts of every visit but the first are of the task named
\* by a next_task event of the visit before.
C13_CausalOrder ==
    /\ \A i \in 1..Len(events) :
          IsKind(i, {"task_attempt"}) =>
             /\ i < Len(events)
             /\ IsKind(i + 1, Reports)
             /\ events[i + 1].visit = events[i].visit
             /\ events[i + 1].retry = events[i].retry
             /\ events[i + 1].task = events[i].task
    /\ \A i \in 1..Len(events) :
          IsKind(i, Reports) => i > 1 /\ IsKind(i - 1, {"task_attempt"})
    /\ \A i \in 1..Len(events) :
          IsKind(i, Moves) =>
             \A j \in 1..Len(events) :
                IsKind(j, Reports \cup {"task_attempt"}) =>
                   (j < i <=> events[j].visit <= events[i].visit)
    /\ \A j \in 1..Len(events) :
          (IsKind(j, {"task_attempt"}) /\ events[j].visit > 1) =>
             \E i \in 1..(j - 1) :
                /\ IsKind(i, {"next_task"})
                /\ events[i].visit = events[j].visit - 1
                /\ events[i].next = events[j].task

C13_Witness ==
    /\ pc = "returned"
    /\ Kinds(events) = <<"task_attempt", "attempt_error", "task_attempt",
                         "attempt_change", "next_task", "next_task_change",
                         "task_attempt", "attempt_change", "chain_complete",
                         "chain_complete_change">>
    /\ events[5].task = "a"
    /\ events[5].next = "b"
    /\ events[7].task = "b"

-----------------------------------------------------------------------------
(* Retries of one visit *)

\* C19: all calls of the executor made in one visit of a task carry the same
\* payload and the same payload type.
C19_RetriesSamePayload ==
    \A i \in 1..Len(execCalls) : \A j \in 1..Len(execCalls) :
        execCalls[i].visit = execCalls[j].visit
        => /\ execCalls[i].payload = execCalls[j].payload
           /\ execCalls[i].payloadType = execCalls[j].payloadType

\* positions in events of the reports of kind k of visit v
ReportsOf(v, k) ==
    {i \in 1..Len(events) : events[i].kind = k /\ events[i].visit = v}

ThisVisit == Len(visited)

\* the executor has just succeeded
Recovers == Calls /\ taskErr' = ""

\* C20: the attempt that succeeds after k failed attempts of the visit is
\* attempt k+1 with k <= retry_on_failure; it ends the retry loop, so that the
\* visit has k error reports and one success report and no attempt follows
\* in the visit; output, output type and transition value are those of the
\* successful attempt; the steps after it are those of a task that succeeded:
\* the scope is updated with the output and the transition is evaluated once.
C20_RecoversAfterFailures ==
    /\ [][Recovers =>
            /\ pc' = "after"
            /\ retry' = retry
            /\ retry <= Max(currentTask.RetryOnFailure, 0)
            /\ LastCall.retry = retry
            /\ LET v == Len(visited')
               IN  /\ visited' = visited
                   /\ Cardinality({i \in 1..Len(events') :
                         events'[i].kind = "task_attempt" /\ events'[i].visit = v})
                        = retry + 1
                   /\ Cardinality({i \in 1..Len(events') :
                         events'[i].kind = "attempt_error" /\ events'[i].visit = v})
                        = retry
                   /\ Cardinality({i \in 1..Len(events') :
                         events'[i].kind = "attempt_change" /\ events'[i].visit = v})
                        = 1
            /\ events'[Len(events')].kind = "attempt_change"
            /\ events'[Len(events')].payload = output']_vars
    /\ [][(pc = "after" /\ taskErr = "" /\ pc' # pc) =>
            /\ events'[Len(events')].kind # "task_attempt"
            /\ execCalls' = execCalls
            /\ visited' = visited
            /\ output' = output
            /\ transitionEval' = transitionEval
            /\ scope' = SetVar(SetVar(scope, "previous_output", output),
                               currentTask.ID, output)
            /\ pc' \in {"transition", "returned"}]_vars
    /\ [](\A v \in 1..Len(visited) :
            /\ Cardinality(ReportsOf(v, "attempt_change")) <= 1
            /\ \A i \in ReportsOf(v, "attempt_change") :
                  \A j \in AttemptsOf(v) : j < i
            /\ Cardinality({i \in 1..Len(events) :
                              events[i].kind \in Moves /\ events[i].visit = v}) <= 1)

\* two failed attempts, then the success and the end of the chain
C20_Witness ==
    /\ pc = "returned"
    /\ retErr = ""
    /\ Kinds(events) = <<"task_attempt", "attempt_error", "task_attempt",
                         "attempt_error", "task_attempt", "attempt_change",
                         "chain_complete", "chain_complete_change">>
    /\ retOutput = "73"

-----------------------------------------------------------------------------
(* The chain definition and the resolver policy *)

ChainTasks == {chain.Tasks[i] : i \in 1..Len(chain.Tasks)}

\* C15: no step of ExecEnv changes the chain: its routing strategy, its task
\* list and the fields and transitions of its tasks stay as they were at the
\* call; the task the engine works on is one of the chain, unaltered.
C15_ChainNotModified ==
    /\ [][chain' = chain]_vars
    /\ [](pc \in {"loop", "retry", "after", "transition"}
            => currentTask \in ChainTasks)
    /\ []((pc = "returned" /\ currentTask # NoTask) => currentTask \in ChainTasks)

C15_Witness ==
    /\ pc = "returned"
    /\ retErr = "task failed after retries"
    /\ Len(visited) = 2
    /\ Len(chain.Tasks) = 2
    /\ currentTask = chain.Tasks[2]
    /\ currentTask.RetryOnFailure = 0

ParsedPolicy == PolicyFromString(chain.RoutingStrategy)

\* C17: every call of the executor is handed the random policy when the
\* chain's routing strategy is empty and the policy parsed from it otherwise;
\* when the strategy does not parse, the execution returns the error of the
\* parser and no attempt was started.
C17_ResolverPolicy ==
    /\ \A i \in 1..Len(execCalls) :
          execCalls[i].resolver =
             IF chain.RoutingStrategy = "" THEN Randomly ELSE ParsedPolicy.policy
    /\ (pc # "call" /\ chain.RoutingStrategy # "" /\ ParsedPolicy.err # "")
          => /\ pc = "returned"
             /\ retErr = ParsedPolicy.err
             /\ retOutput = Nil
             /\ events = <<>>
             /\ execCalls = <<>>

C17_Witness ==
    /\ chain.RoutingStrategy = "round_robin"
    /\ Len(execCalls) = 2
    /\ execCalls[2].resolver = "round_robin"

C17_WitnessUnparsed ==
    /\ chain.RoutingStrategy = "bogus"
    /\ Len(chain.Tasks) = 1
    /\ validateChain(chain.Tasks) = ""
    /\ pc = "returned"
    /\ retErr = "unknown routing strategy"

C17_WitnessDefault ==
    /\ chain.RoutingStrategy = ""
    /\ Len(execCalls) = 1
    /\ execCalls[1].resolver = Randomly

-----------------------------------------------------------------------------
(* Properties of compare *)

CompareDone == cmpCall.state = "done"

\* what the comparison of the numbers themselves gives
NumericTruth ==
    CASE cmpCall.operator = OpInRange ->
           /\ Tenths(cmpCall.lo) <= Tenths(cmpCall.value)
           /\ Tenths(cmpCall.value) <= Tenths(cmpCall.hi)
      [] cmpCall.operator \in {OpGreaterThan, OpGt} ->
           Tenths(cmpCall.value) > Tenths(cmpCall.lo)
      [] cmpCall.operator \in {OpLessThan, OpLt} ->
           Tenths(cmpCall.value) < Tenths(cmpCall.lo)

\* C14: compare with in_range and when = "lo-hi" is true exactly when
\* lo <= value <= hi; with > or greater_than exactly when value > when; with
\* < or less_than exactly when value < when.
C14_NumericComparisons ==
    CompareDone => cmpCall.result = CmpResult(NumericTruth, "")

\* the same for bounds of a range that are written without a sign
C14_UnsignedBounds ==
    (/\ CompareDone
     /\ cmpCall.operator = OpInRange => (cmpCall.lo.m >= 0 /\ cmpCall.hi.m >= 0))
    => cmpCall.result = CmpResult(NumericTruth, "")

C14_WitnessEndpoint ==
    /\ CompareDone
    /\ cmpCall.operator = OpInRange
    /\ cmpCall.value = cmpCall.hi
    /\ cmpCall.lo.m = 0
    /\ cmpCall.result = CmpResult(TRUE, "")

-----------------------------------------------------------------------------
(* Properties of the chain store *)

StoredIDs == {db.stored[i].id : i \in 1..Len(db.stored)}

StoredChain(id) ==
    db.stored[CHOOSE i \in 1..Len(db.stored) : db.stored[i].id = id].chain

C18_WitnessListed ==
    /\ db.last.op = "list"
    /\ Len(db.last.chains) = 1
    /\ db.last.chains[1].ID = "c2"
    /\ Len(db.stored) = 1

-----------------------------------------------------------------------------
(* Two concurrent executions *)

Outcome(L) ==
    [scope |-> L.scope, visited |-> L.visited, retOutput |-> L.retOutput,
     retErr |-> L.retErr]

\* what the call of L gives when it runs alone
Alone(L) ==
    Outcome(RunAlone(NewCall(L.who, L.chain, L.input, L.dataType), RunFuel))

\* C16: of two calls of ExecEnv on one SimpleEnv whose executor keeps no
\* state, interleaved in any way, each one that has returned has the variable
\* scope, the sequence of visited tasks, the output and the error it has
\* when it runs alone; a step of one call changes nothing of the other.
C16_ConcurrentCallsIndependent ==
    /\ [](parked.who # 0 =>
            /\ pc = "returned" => Outcome(Locals) = Alone(Locals)
            /\ parked.pc = "returned" => Outcome(parked) = Alone(parked))
    /\ [][(parked.who # 0 /\ parked'.who = parked.who) => parked' = parked]_vars
    /\ [][(parked.who # 0 /\ parked'.who # parked.who)
            => parked' = Locals /\ Locals' = parked]_vars

\* both calls have returned, each after two visits, on different inputs
C16_Witness ==
    /\ parked.who = 2
    /\ pc = "returned"
    /\ parked.pc = "returned"
    /\ retErr = ""
    /\ parked.retErr = ""
    /\ Len(visited) = 2
    /\ Len(parked.visited) = 2
    /\ input = "hello"
    /\ dataType = DataTypeString
    /\ scope["a"] = "hello"
    /\ parked.scope["a"] = "hi"
    /\ execCalls[2].payload = "hello of hello"
    /\ parked.execCalls[2].payload = "hi of hi"

\* the first call has returned while the second waits between two attempts
C16_WitnessInterleaved ==
    /\ parked.who = 2
    /\ pc = "returned"
    /\ Len(visited) = 2
    /\ parked.pc = "retry"
    /\ parked.retry = 1

-----------------------------------------------------------------------------
(* Rendering of the task template at the start of a visit *)

\* a task visit begins in this step
VisitBegins == visited' # visited

\* the executor is called in this step for the first time in the visit
FirstCall == Calls /\ retry = 0

\* C21: when a visit begins the payload becomes the task's template rendered
\* against the scope exactly when the payload type is string and the
\* template is not empty, and is left as it is in every other case; the
\* first call of the executor in the visit is handed that payload and the
\* unchanged payload type.
C21_TemplateRendering ==
    /\ [][VisitBegins =>
            IF outputType = DataTypeString /\ currentTask.Template # ""
            THEN /\ output' = renderTemplate(currentTask.Template, scope).out
                 /\ outputType' = DataTypeString
            ELSE /\ output' = output
                 /\ outputType' = outputType
                 /\ pc' = "retry"]_vars
    /\ [][FirstCall =>
            /\ LastCall.payload = output
            /\ LastCall.payloadType = outputType
            /\ LastCall.visit = Len(visited)]_vars

\* the second task is handed its rendered template "{{.input}}" in place of
\* the payload "partial" left by the failed first task
C21_Witness ==
    /\ visited = <<"b", "a">>
    /\ input = "hello"
    /\ currentTask.Template = "{{.input}}"
    /\ Len(execCalls) >= 2
    /\ execCalls[Len(execCalls) - 1].task = "b"
    /\ execCalls[Len(execCalls)].task = "a"
    /\ execCalls[Len(execCalls)].payloadType = DataTypeString
    /\ execCalls[Len(execCalls)].payload = "hello"
    /\ "previous_output" \notin DOMAIN scope

\* a task with a template is handed the payload of type int as it is
C21_WitnessUnrendered ==
    /\ visited = <<"b", "a">>
    /\ currentTask.Template = "{{.input}}"
    /\ Len(execCalls) >= 2
    /\ execCalls[Len(execCalls)].task = "a"
    /\ execCalls[Len(execCalls)].payloadType = DataTypeInt
    /\ execCalls[Len(execCalls)].payload = "73"

-----------------------------------------------------------------------------
(* Failure of the task template *)

\* the template of the task of the visit that begins does not parse, or
\* renders to the empty string
TemplateFails ==
    /\ VisitBegins
    /\ outputType = DataTypeString
    /\ currentTask.Template # ""
    /\ LET r == renderTemplate(currentTask.Template, scope)
       IN  r.err # "" \/ r.out = ""

\* C22: a visit whose template fails to render, or renders to the empty
\* string, ends the execution with an error in the same step: the executor
\* is not called and nothing is reported for the visit, and the on_failure
\* target of the task is not made the current task.
C22_TemplateErrorIsFatal ==
    /\ [][TemplateFails =>
            /\ pc' = "returned"
            /\ retErr' \in {"template error", "template rendered empty string"}
            /\ retOutput' = Nil
            /\ execCalls' = execCalls
            /\ events' = events
            /\ currentTask' = currentTask]_vars
    /\ []((pc = "returned" /\ retErr \in {"template error",
                                         "template rendered empty string"})
            => /\ \A i \in 1..Len(execCalls) : execCalls[i].visit < Len(visited)
               /\ visited[Len(visited)] = currentTask.ID)

\* the template "{{.input}}" of a task with a retry and an on_failure target
\* rendered to the empty string
C22_Witness ==
    /\ pc = "returned"
    /\ retErr = "template rendered empty string"
    /\ input = ""
    /\ currentTask.Template = "{{.input}}"
    /\ currentTask.RetryOnFailure = 1
    /\ currentTask.Transition.OnFailure = "a"
    /\ execCalls = <<>>

\* the template "{{.input" of the second task does not parse
C22_WitnessParse ==
    /\ pc = "returned"
    /\ retErr = "template error"
    /\ currentTask.Template = "{{.input"
    /\ currentTask.Transition.OnFailure = "a"
    /\ Len(visited) = 2
    /\ Len(execCalls) >= 1
    /\ \A i \in 1..Len(execCalls) : execCalls[i].visit = 1

-----------------------------------------------------------------------------
(* The variable scope and the payload from one task to the next *)

\* the execution enters its main loop in this step
Starts == pc = "call" /\ pc' = "loop"

\* the scope is updated in this step for the task that succeeded
ScopeUpdates == pc = "after" /\ taskErr = "" /\ pc' # pc

\* the execution moves on to the next task in this step
MovesOn == pc = "transition" /\ pc' = "loop"

\* C23: the execution starts at the first task of the chain, with the scope
\* {input} and the caller's input and type as payload; the output a
\* successful attempt reported is stored under "previous_output" and under
\* the id of the task, every other variable kept, before the print statement
\* is rendered and while the transition is still to be evaluated; the task
\* the transition selects starts with that output and its type as payload.
C23_ScopeAndPayload ==
    /\ [][Starts =>
            /\ currentTask' = chain.Tasks[1]
            /\ DOMAIN scope' = {"input"}
            /\ scope'["input"] = input
            /\ output' = input
            /\ outputType' = dataType]_vars
    /\ [][(Calls /\ taskErr' = "") =>
            /\ pc' = "after"
            /\ events'[Len(events')].kind = "attempt_change"
            /\ events'[Len(events')].payload = output']_vars
    /\ [][ScopeUpdates =>
            /\ DOMAIN scope' = DOMAIN scope \cup {"previous_output", currentTask.ID}
            /\ scope'["previous_output"] = output
            /\ scope'[currentTask.ID] = output
            /\ \A k \in DOMAIN scope \ {"previous_output", currentTask.ID} :
                  scope'[k] = scope[k]
            /\ output' = output
            /\ (pc' = "transition" /\ currentTask.PrintStmt # "" =>
                  events'[Len(events')].payload
                     = renderTemplate(currentTask.PrintStmt, scope').out)]_vars
    /\ [](pc = "transition" =>
              /\ {"previous_output", currentTask.ID} \subseteq DOMAIN scope
              /\ scope["previous_output"] = output
              /\ scope[currentTask.ID] = output)
    /\ [][MovesOn =>
            /\ output' = output
            /\ outputType' = outputType
            /\ scope' = scope
            /\ currentTask'.ID
                 = evaluateTransitions(currentTask.Transition, transitionEval).goto]_vars

\* the second task starts with the output "echo" of the first as payload,
\* stored under previous_output and under the id of the first task
C23_Witness ==
    /\ pc = "retry"
    /\ visited = <<"a", "b">>
    /\ input = "hello"
    /\ output = "echo"
    /\ outputType = DataTypeString
    /\ DOMAIN scope = {"input", "previous_output", "a"}
    /\ scope["previous_output"] = "echo"
    /\ scope["a"] = "echo"
    /\ scope["input"] = "hello"

\* the print statement "{{.a}}!" of task a printed the output of task a
C23_WitnessPrint ==
    /\ pc = "transition"
    /\ currentTask.PrintStmt = "{{.a}}!"
    /\ output = "73"
    /\ events[Len(events)].kind = "println"
    /\ events[Len(events)].payload = "73!"

-----------------------------------------------------------------------------
(* Branches that cannot be compared *)

KnownOperators ==
    {OpEquals, OpContains, OpStartsWith, OpEndsWith, OpGreaterThan, OpGt,
     OpLessThan, OpLt, OpInRange, OpDefault}

OrderOperators == {OpGreaterThan, OpGt, OpLessThan, OpLt}

\* the text is not a number
NotNumber(s) == ~parseNumber(s).ok

\* the operand of in_range is not two numbers joined by "-"
NotRange(when) ==
    LET parts == Split(when, "-")
    IN  \/ Len(parts) # 2
        \/ NotNumber(TrimSpace(parts[1]))
        \/ NotNumber(TrimSpace(parts[2]))

\* branch b has an unknown operator, or a numeric operator and a transition
\* value or a 'when' operand that is not a number
BadBranch(b, eval) ==
    \/ b.Operator \notin KnownOperators
    \/ /\ b.Operator \in OrderOperators
       /\ NotNumber(eval) \/ NotNumber(b.When)
    \/ /\ b.Operator = OpInRange
       /\ NotNumber(eval) \/ NotRange(b.When)

\* the branches of the task that succeeded which cannot be compared
BadBranches == {i \in 1..Len(TaskBranches) : BadBranch(TaskBranches[i], transitionEval)}

\* a branch before branch i matches the transition value
MatchedBefore(i) ==
    \E j \in 1..(i - 1) :
        /\ TaskBranches[j].Operator # OpDefault
        /\ compare(TaskBranches[j].Operator, transitionEval, TaskBranches[j].When)
             = CmpResult(TRUE, "")

\* the step ends the execution with a transition error: nothing is retried,
\* reported or looked up
FatalTransition ==
    /\ pc' = "returned"
    /\ retOutput' = Nil
    /\ SubSeq(retErr', 1, 18) = "transition error: "
    /\ retErr' # "transition error: no matching transition found"
    /\ execCalls' = execCalls
    /\ events' = events
    /\ visited' = visited
    /\ currentTask' = currentTask

\* C24 as stated: a task whose transition has a branch that cannot be compared
\* ends the execution with a transition error.
C24_BadBranchIsFatal ==
    [][(AtTransition /\ BadBranches # {} /\ pc' # pc) => FatalTransition]_vars

\* C24 amended: a branch that cannot be compared, with no branch before it
\* that matches, makes evaluateTransitions return an error and no goto, and
\* ends the execution with that error in the same step: the executor is not
\* called again and the on_failure target is not made the current task.
C24_ReachedBadBranchIsFatal ==
    [][(/\ AtTransition
        /\ \E i \in BadBranches : ~MatchedBefore(i)
        /\ pc' # pc)
         => /\ Selection.err \notin {"", "no matching transition found"}
            /\ Selection.goto = ""
            /\ retErr' = "transition error: " \o Selection.err
            /\ FatalTransition]_vars

\* the unknown operator of a task with a retry and an on_failure target
C24_Witness ==
    /\ pc = "returned"
    /\ retErr = "transition error: unsupported operator"
    /\ taskErr = ""
    /\ currentTask.ID = "c"
    /\ currentTask.RetryOnFailure = 1
    /\ currentTask.Transition.OnFailure = "a"
    /\ Cardinality(AttemptsOf(Len(visited))) = 1

\* the operator > on the transition value "hello"
C24_WitnessNumber ==
    /\ pc = "returned"
    /\ retErr = "transition error: parse response"
    /\ transitionEval = "hello"
    /\ currentTask.Transition.OnFailure = "c"
    /\ BadBranches = {2}

-----------------------------------------------------------------------------
(* The print statement of a task *)

\* the kinds of the events that are calls of exe.tracker.Start or of the
\* callbacks it returned; "println" is a line written by fmt.Println
TrackerKinds ==
    {"task_attempt", "attempt_error", "attempt_change", "next_task",
     "next_task_change", "chain_complete", "chain_complete_change"}

\* the events added in this step
NewEvents == SubSeq(events', Len(events) + 1, Len(events'))

\* the print statement of the task that succeeded is rendered in this step
Prints == ScopeUpdates /\ currentTask.PrintStmt # "" /\ pc' = "transition"

\* C25: the print statement of a successful task, rendered against the scope
\* after its update, is handed to the activity tracker before the transition
\* is evaluated.
C25_PrintIsTrackerEvent ==
    [][Prints =>
          \E i \in 1..Len(NewEvents) :
              /\ NewEvents[i].kind \in TrackerKinds
              /\ NewEvents[i].payload
                   = renderTemplate(currentTask.PrintStmt, scope').out]_vars

-----------------------------------------------------------------------------
(* MockTaskExecutor on its own: a mock is configured and TaskExec is called *)
(* on it a number of times                                                  *)

\* the longest ErrorSequence of the model
MaxErrors == 2
\* the most calls made on one mock
MaxMockCalls == 3

\* the error values of the model; "" is the nil error
MockErrors == {"", "e1", "e2"}

\* the inputs of the calls: strings, and a value that is not a string
MockInputs ==
    {[isString |-> TRUE, value |-> "What is 2+2?"],
     [isString |-> FALSE, value |-> "42"]}

\* line 297: input.(string) with the ok result dropped: the zero value when
\* input is not a string
AsString(in) == IF in.isString THEN in.value ELSE ""

\* the next error of the sequence handed out again
MockCallIndexStuck(m) == m.callIndex

\* lines 300-305: callIndex after the call
MockCallIndex(m) ==
    IF m.callIndex < Len(m.ErrorSequence) THEN m.callIndex + 1 ELSE m.callIndex

\* lines 299-305: the error of the call
MockErr(m) ==
    IF m.callIndex < Len(m.ErrorSequence)
    THEN m.ErrorSequence[m.callIndex + 1]
    ELSE m.MockError

\* line 307: what the call returns
MockReturn(m, dt) ==
    [output |-> m.MockOutput, outputType |-> dt,
     transitionEval |-> m.MockRawResponse, err |-> MockErr(m)]

InitMock ==
    /\ EngineIdle
    /\ evalCall = EvalIdle
    /\ cmpCall = CmpIdle
    /\ db = EmptyDB
    /\ exe = AnyExecutor
    /\ parked = NoCall
    /\ \E out \in {"mock-result", Nil}, err \in MockErrors,
          es \in SeqsUpTo(MockErrors, MaxErrors) :
          mock = [MockIdle EXCEPT !.MockOutput = out,
                                  !.MockRawResponse = "mock-response",
                                  !.MockError = err,
                                  !.ErrorSequence = es]
    /\ ServicesIdle

\* lines 295-308: MockTaskExecutor.TaskExec
MockTaskExec ==
    /\ Len(mock.calls) < MaxMockCalls
    /\ \E task \in {"a"}, in \in MockInputs,
          dt \in {DataTypeString, DataTypeInt} :
          mock' = [mock EXCEPT
                     !.CalledWithTask = task,
                     !.CalledWithPrompt = AsString(in),
                     !.callIndex = MockCallIndex(mock),
                     !.calls = Append(mock.calls,
                                      [task |-> task, input |-> in,
                                       dataType |-> dt,
                                       returned |-> MockReturn(mock, dt)])]
    /\ UNCHANGED <<engineVars, evalCall, cmpCall, db, exe, parked, serviceVars>>

NextMock == MockTaskExec

SpecMock == InitMock /\ [][NextMock]_vars

\* the entries of the sequence are errors and MockError is nil
ErrorsThenNil ==
    /\ mock.MockError = ""
    /\ \A i \in 1..Len(mock.ErrorSequence) : mock.ErrorSequence[i] # ""

\* C26: every call of the mock returns MockOutput, the data type it was
\* called with and MockRawResponse; call i returns entry i of ErrorSequence
\* while there is one and MockError after; when the sequence holds k errors
\* and MockError is nil, the calls that fail are the first k.
C26_MockTaskExec ==
    /\ \A i \in 1..Len(mock.calls) :
          LET c == mock.calls[i]
          IN  /\ c.returned.output = mock.MockOutput
              /\ c.returned.transitionEval = mock.MockRawResponse
              /\ c.returned.outputType = c.dataType
              /\ c.returned.err = IF i <= Len(mock.ErrorSequence)
                                  THEN mock.ErrorSequence[i]
                                  ELSE mock.MockError
    /\ ErrorsThenNil =>
          \A i \in 1..Len(mock.calls) :
              mock.calls[i].returned.err # "" <=> i <= Len(mock.ErrorSequence)

\* two errors, then a call that succeeds
C26_Witness ==
    /\ ErrorsThenNil
    /\ mock.ErrorSequence = <<"e1", "e2">>
    /\ Len(mock.calls) = 3
    /\ mock.calls[1].returned.err = "e1"
    /\ mock.calls[2].returned.err = "e2"
    /\ mock.calls[3].returned.err = ""
    /\ mock.calls[3].returned.output = "mock-result"
    /\ mock.calls[3].returned.transitionEval = "mock-response"
    /\ mock.calls[3].dataType = DataTypeInt
    /\ mock.calls[3].returned.outputType = DataTypeInt

-----------------------------------------------------------------------------
(* A comparison that fails, on a finished call of evaluateTransitions *)

\* the branches that are compared: the non-default branches up to the first
\* that matches or fails
Reached == {i \in NonDefault : \A j \in NonDefault : j < i => j \notin Matching \cup Failing}

\* C27: when the comparison of a branch that is reached fails, its error is
\* what evaluateTransitions returns, with no goto: neither a branch after it
\* that matches nor a default branch, wherever it stands, is taken.
C27_CompareErrorStopsEvaluation ==
    evalCall.state = "done" =>
        \A i \in Reached \cap Failing :
            /\ evalCall.result.err = Compared(i).err
            /\ evalCall.result.goto = ""
            /\ evalCall.result.idx = 0
            /\ ~ReturnsDefault
            /\ \A j \in Matching : ~ReturnsBranch(j)

\* the value "echo" is not a number, and the branch after '>' matches it
C27_Witness ==
    /\ evalCall.state = "done"
    /\ evalCall.eval = "echo"
    /\ EvalBranches = <<Branch(">", "50", "g"), Branch("equals", "echo", "e1")>>
    /\ Failing = {1}
    /\ Matching = {2}
    /\ evalCall.result.err = "parse response"

\* an unknown operator after a default branch
C27_WitnessDefault ==
    /\ evalCall.state = "done"
    /\ EvalBranches = <<Branch("default", "", "d1"), Branch("matches", "", "u")>>
    /\ evalCall.result.err = "unsupported operator"
    /\ evalCall.result.goto = ""

-----------------------------------------------------------------------------
(* ExecEnv on chains whose task ids are names of the variable scope *)

ScopeTasks ==
    { ChainTask("input", "", "", 0, "",
                <<Branch("default", "", "previous_output")>>, "previous_output"),
      ChainTask("previous_output", "{{.input}}", "", 0, "{{.input}}",
                <<Branch("default", "", "end")>>, ""),
      ChainTask("a", "", "", 1, "{{.a}}!", <<Branch("default", "", "input")>>,
                "input") }

ScopeChains ==
    {[RoutingStrategy |-> "", Tasks |-> ts] : ts \in SeqsUpTo(ScopeTasks, MaxTasks)}

InitScope ==
    /\ chain \in ScopeChains
    /\ input \in Inputs
    /\ dataType \in InputTypes
    /\ ctxCancelled = FALSE
    /\ pc = "call"
    /\ currentTask = NoTask
    /\ output = Nil
    /\ outputType = DataTypeAny
    /\ transitionEval = ""
    /\ taskErr = ""
    /\ retry = 0
    /\ scope = EmptyScope
    /\ events = <<>>
    /\ visited = <<>>
    /\ captured = <<>>
    /\ retOutput = Nil
    /\ retErr = ""
    /\ resolver = Nil
    /\ execCalls = <<>>
    /\ defers = NoDefers
    /\ evalCall = EvalIdle
    /\ cmpCall = CmpIdle
    /\ db = EmptyDB
    /\ exe = AnyExecutor
    /\ parked = NoCall
    /\ mock = MockIdle
    /\ ServicesIdle

SpecScope == InitScope /\ [][Next]_vars

\* the execution has set up its scope
Running == pc \notin {"call", "idle"}

\* the output of a successful attempt of the task named "input"
OutputsOfInput ==
    {events[i].payload : i \in {j \in 1..Len(events) :
        events[j].kind = "attempt_change" /\ events[j].task = "input"}}

\* C28 as stated: the variable "input" of the scope is the input of the
\* execution, from the first task to the return.
C28_InputKept ==
    Running => "input" \in DOMAIN scope /\ scope["input"] = input

\* C28 amended: the variable "input" is the input of the execution until a
\* task whose id is "input" succeeds, and then the output of that task; a
\* task with another id, "previous_output" included, and a task that fails
\* leave it as it is.
C28_InputKeptUnlessTaskNamedInput ==
    /\ [](Running =>
            /\ "input" \in DOMAIN scope
            /\ scope["input"] \in {input} \cup OutputsOfInput
            /\ OutputsOfInput = {} => scope["input"] = input)
    /\ [][(ScopeUpdates /\ currentTask.ID # "input")
            => scope'["input"] = scope["input"]]_vars
    /\ [][(ScopeUpdates /\ currentTask.ID = "input")
            => scope'["input"] = output]_vars
    /\ [][(Running /\ ~ScopeUpdates) => scope' = scope]_vars

\* the task named "previous_output" succeeded with an output that is not the
\* input, after the task named "input" failed and went to its on_failure
\* target
C28_Witness ==
    /\ pc = "returned"
    /\ retErr = ""
    /\ input = "hello"
    /\ retOutput = "73"
    /\ visited = <<"input", "previous_output">>
    /\ DOMAIN scope = {"input", "previous_output"}
    /\ scope["previous_output"] = "73"
    /\ scope["input"] = "hello"

-----------------------------------------------------------------------------
(* The task a failed task hands over to *)

\* the failed task hands over to its on_failure target in this step
HandsOver == pc = "after" /\ taskErr # "" /\ pc' = "loop"

\* the first call of the executor in the current visit
FirstCallOfVisit ==
    CHOOSE c \in {execCalls[i] : i \in 1..Len(execCalls)} :
        c.visit = Len(visited) /\ c.retry = 0

\* C29: the on_failure target of a task that failed on every attempt starts
\* with the payload and the payload type the failed task was first called
\* with.
C29_OnFailureGetsInputOfFailedTask ==
    [][HandsOver =>
          /\ output' = FirstCallOfVisit.payload
          /\ outputType' = FirstCallOfVisit.payloadType]_vars

-----------------------------------------------------------------------------
(* The scope after a task that failed *)

\* the events of visit v of the given kind
EventsOf(v, kind) ==
    {i \in 1..Len(events) : events[i].visit = v /\ events[i].kind = kind}

\* C30: the step that hands a failed task over to its on_failure target
\* leaves the scope as it is and prints nothing; the scope is written only in
\* the step after a successful attempt, so that while a failed task waits to
\* hand over the scope is still the one its visit began with, and a visit in
\* which something was printed is a visit with a successful attempt.
C30_FailedTaskLeavesScope ==
    /\ [][HandsOver =>
            /\ scope' = scope
            /\ \A i \in 1..Len(NewEvents) : NewEvents[i].kind # "println"
            /\ EventsOf(Len(visited), "println") = {}
            /\ EventsOf(Len(visited), "attempt_change") = {}]_vars
    /\ [][(Running /\ scope' # scope) => (pc = "after" /\ taskErr = "")]_vars
    /\ [](\A i \in 1..Len(events) :
             events[i].kind = "println" =>
                EventsOf(events[i].visit, "attempt_change") # {})

\* task a, with the print statement "{{.a}}!", failed twice and handed over
\* to the task named "input": the scope holds the input only
C30_Witness ==
    /\ pc = "loop"
    /\ visited = <<"a">>
    /\ taskErr # ""
    /\ currentTask.ID = "input"
    /\ chain.Tasks[1].PrintStmt = "{{.a}}!"
    /\ Cardinality(EventsOf(1, "attempt_error")) = 2
    /\ DOMAIN scope = {"input"}
    /\ scope["input"] = input
    /\ events[Len(events)].kind = "next_task_change"

-----------------------------------------------------------------------------
(* A timeout that is not a duration *)

\* the retry loop is entered for a task whose timeout does not parse
BadTimeoutReached ==
    /\ pc = "retry"
    /\ currentTask.Timeout # ""
    /\ ~ParseDurationOk(currentTask.Timeout)

\* C31: validation lets a task with a timeout that is not a duration pass;
\* when the retry loop is entered for it the execution returns the error
\* 'invalid timeout' in its first iteration: the executor is not called and no
\* event is reported for the visit, nothing is retried, the on_failure target
\* is not made the current task; every earlier visit has had its attempts.
C31_InvalidTimeoutIsFatal ==
    /\ [][(BadTimeoutReached /\ pc' # pc) =>
            /\ retry = 0
            /\ pc' = "returned"
            /\ retErr' = "invalid timeout"
            /\ retOutput' = Nil
            /\ execCalls' = execCalls
            /\ events' = events
            /\ visited' = visited
            /\ currentTask' = currentTask]_vars
    /\ [](BadTimeoutReached =>
            /\ AttemptsOf(Len(visited)) = {}
            /\ \A i \in 1..Len(execCalls) : execCalls[i].visit < Len(visited)
            /\ \A v \in 1..(Len(visited) - 1) : AttemptsOf(v) # {})
    /\ [](retErr = "invalid timeout" => AttemptsOf(Len(visited)) = {})

\* the second task, with the timeout "soon", a retry and an on_failure
\* target, ended the execution after the first task had run
C31_Witness ==
    /\ pc = "returned"
    /\ retErr = "invalid timeout"
    /\ visited = <<"a", "b">>
    /\ currentTask.Timeout = "soon"
    /\ currentTask.RetryOnFailure = 1
    /\ currentTask.Transition.OnFailure = "a"
    /\ Len(execCalls) >= 1
    /\ \A i \in 1..Len(execCalls) : execCalls[i].task = "a"

-----------------------------------------------------------------------------
(* The spans ExecEnv opens and the calls it defers *)

\* the spans opened so far, each named by the number of its Start event
Spans == {i \in 1..Len(events) : events[i].kind \in SpanKinds}

\* the places of call c in the sequence q of deferred calls
Places(q, c) == {k \in 1..Len(q) : q[k] = c}

\* the spans that are open: opened, and their end callback not yet invoked
OpenSpans == {i \in Spans : Places(defers.ran, Deferred("end", i)) = {}}

\* C32: while ExecEnv runs no end callback is invoked and the end callback of
\* every span opened is deferred once; when ExecEnv has returned, with an
\* output or with any error, no deferred call is left and the end callback
\* of every span it opened has been invoked exactly once, and no other.
C32_SpansEndedAtReturn ==
    /\ pc \notin {"returned", "idle"} =>
          /\ defers.ran = <<>>
          /\ \A i \in Spans :
                Cardinality(Places(defers.pending, Deferred("end", i))) = 1
    /\ pc = "returned" =>
          /\ defers.pending = <<>>
          /\ OpenSpans = {}
          /\ \A i \in Spans :
                Cardinality(Places(defers.ran, Deferred("end", i))) = 1
          /\ \A k \in 1..Len(defers.ran) :
                defers.ran[k].fn = "end" => defers.ran[k].span \in Spans

\* retry exhaustion after a move to the on_failure task: four spans ended
C32_Witness ==
    /\ pc = "returned"
    /\ retErr = "task failed after retries"
    /\ Len(visited) = 2
    /\ Cardinality(Spans) = 4
    /\ \E i \in Spans : events[i].kind = "next_task"
    /\ \A i \in Spans : Cardinality(Places(defers.ran, Deferred("end", i))) = 1

\* a successful execution of two tasks
C32_WitnessSuccess ==
    /\ pc = "returned"
    /\ retErr = ""
    /\ Len(visited) = 2
    /\ {events[i].kind : i \in Spans} = SpanKinds
    /\ Len(defers.ran) >= 4

\* a transition error after a task with a timeout
C32_WitnessFatal ==
    /\ pc = "returned"
    /\ retErr = "transition error: parse response"
    /\ Cardinality(Spans) >= 1
    /\ \E k \in 1..Len(defers.ran) : defers.ran[k].fn = "cancel"

\* the calls of the kind fn that are deferred and have not run
PendingOf(fn) == {k \in 1..Len(defers.pending) : defers.pending[k].fn = fn}

\* C33: when a span is open, every task_attempt span opened before it has
\* been ended and the timeout context of its attempt released: at most one
\* task_attempt span is open, with at most one timeout context.
C33_AttemptSpanEndedBeforeNext ==
    /\ \A j \in OpenSpans : \A i \in OpenSpans :
          (i < j /\ events[i].kind = "task_attempt") => FALSE
    /\ Cardinality({i \in OpenSpans : events[i].kind = "task_attempt"}) <= 1
    /\ Cardinality(PendingOf("cancel")) <= 1

-----------------------------------------------------------------------------
(* ExecEnv on chains that lead back to a task, under fair scheduling: a     *)
(* call of ExecEnv that can take a step takes it                            *)

LoopTasks ==
    { ChainTask("a", "", "", 1, "", <<Branch("default", "", "b")>>, "b"),
      ChainTask("b", "", "", 0, "",
                <<Branch("equals", "73", "a"), Branch("default", "", "end")>>, ""),
      ChainTask("b", "", "", 0, "", <<Branch("default", "", "a")>>, "") }

LoopChains ==
    {[RoutingStrategy |-> "", Tasks |-> ts] : ts \in SeqsUpTo(LoopTasks, MaxTasks)}

InitLive ==
    /\ chain \in LoopChains
    /\ input \in Inputs
    /\ dataType \in InputTypes
    /\ ctxCancelled = FALSE
    /\ pc = "call"
    /\ currentTask = NoTask
    /\ output = Nil
    /\ outputType = DataTypeAny
    /\ transitionEval = ""
    /\ taskErr = ""
    /\ retry = 0
    /\ scope = EmptyScope
    /\ events = <<>>
    /\ visited = <<>>
    /\ captured = <<>>
    /\ retOutput = Nil
    /\ retErr = ""
    /\ resolver = Nil
    /\ execCalls = <<>>
    /\ defers = NoDefers
    /\ evalCall = EvalIdle
    /\ cmpCall = CmpIdle
    /\ db = EmptyDB
    /\ exe = AnyExecutor
    /\ parked = NoCall
    /\ mock = MockIdle
    /\ ServicesIdle

SpecLive == InitLive /\ [][Next]_vars /\ WF_vars(Next)

\* the sum over the tasks of retry_on_failure + 1
RECURSIVE SumRetries(_)
SumRetries(tasks) ==
    IF tasks = <<>> THEN 0
    ELSE tasks[1].RetryOnFailure + 1 + SumRetries(Tail(tasks))

\* the sum over the tasks of the attempts one visit may make
RECURSIVE SumAttempts(_)
SumAttempts(tasks) ==
    IF tasks = <<>> THEN 0
    ELSE Max(tasks[1].RetryOnFailure, 0) + 1 + SumAttempts(Tail(tasks))

\* a task has been visited twice
Revisited ==
    \E i \in 1..Len(visited) : \E j \in 1..Len(visited) :
        i < j /\ visited[i] = visited[j]

\* the calls of the executor in visit v
CallsOf(v) == {i \in 1..Len(execCalls) : execCalls[i].visit = v}

\* C34 as stated: the executor is called at most as often as the sum over
\* the tasks of the chain of retry_on_failure + 1.
C34_CallsBoundedByChain == Len(execCalls) <= SumRetries(chain.Tasks)

\* C34 amended: an execution returns unless it visits a task a second time;
\* one visit calls the executor at most max(retry_on_failure, 0) + 1 times,
\* and an execution that visits no task twice at most as often as the sum of
\* that over the tasks of the chain.
C34_TerminatesUnlessRevisit ==
    /\ [](\A v \in 1..Len(visited) :
            Cardinality(CallsOf(v))
               <= Max(findTaskByID(chain.Tasks, visited[v]).task.RetryOnFailure, 0) + 1)
    /\ [](~Revisited => Len(execCalls) <= SumAttempts(chain.Tasks))
    /\ <>(pc = "returned" \/ Revisited)

\* an execution of two tasks that returned after as many calls as the sum
C34_Witness ==
    /\ pc = "returned"
    /\ retErr = ""
    /\ ~Revisited
    /\ visited = <<"a", "b">>
    /\ Len(execCalls) = 3
    /\ SumAttempts(chain.Tasks) = 3

-----------------------------------------------------------------------------
(* Properties of the default chains *)

\* C35: a run of initializeDefaultChains leaves every stored chain as it
\* was, the chains stored under the ids of the default chains included, and
\* writes only the default chains that have no row.
C35_DefaultsKeepStoredChains ==
    [][db'.last.op = "init"
         => \A i \in 1..Len(db.kv) :
               GetKV(db'.kv, db.kv[i].key).value = db.kv[i].value]_vars

-----------------------------------------------------------------------------
(* Permissions and access lists of package store *)

PermissionNone == 0
PermissionView == 1
PermissionEdit == 2
PermissionManage == 3

ErrAccessEntryNotFound == "access denied"

AccessEntry(identity, resource, resourceType, permission) ==
    [Identity |-> identity, Resource |-> resource,
     ResourceType |-> resourceType, Permission |-> permission]

\* an entry for the resource that carries more than the permission
GrantsAbove(entry, forResource, permission) ==
    entry.Resource = forResource /\ entry.Permission > permission

\* the test of the first return of RequireAuthorisation
Grants(entry, forResource, permission) ==
    entry.Resource = forResource /\ entry.Permission >= permission

AuthzResult(ok, err) == [ok |-> ok, err |-> err]

\* the loop of RequireAuthorisation from entry i on
RECURSIVE RequireFrom(_, _, _, _, _)
RequireFrom(al, i, found, forResource, permission) ==
    IF i > Len(al)
    THEN IF ~found THEN AuthzResult(FALSE, ErrAccessEntryNotFound)
         ELSE AuthzResult(FALSE, "")
    ELSE IF Grants(al[i], forResource, permission)
         THEN AuthzResult(TRUE, "")
         ELSE RequireFrom(al, i + 1, found \/ al[i].Resource = forResource,
                          forResource, permission)

RequireAuthorisation(al, forResource, permission) ==
    RequireFrom(al, 1, FALSE, forResource, permission)

MaxEntries == 3

AuthzResources == {"server", "files"}

AuthzEntries ==
    {AccessEntry("u1", r, "system", p) :
        r \in AuthzResources, p \in PermissionNone..PermissionManage}

InitAuthz ==
    /\ EngineIdle
    /\ evalCall = EvalIdle
    /\ cmpCall = CmpIdle
    /\ db = EmptyDB
    /\ exe = AnyExecutor
    /\ parked = NoCall
    /\ mock = MockIdle
    /\ users = NoUsers
    /\ index = NoIndex
    /\ \E al \in SeqsUpTo(AuthzEntries, MaxEntries), r \in AuthzResources,
          p \in (PermissionNone - 1)..(PermissionManage + 1) :
          authz = [state |-> "called", al |-> al, forResource |-> r,
                   permission |-> p]

RequireAuthorisationCall ==
    /\ authz.state = "called"
    /\ authz' = [state |-> "returned", al |-> authz.al,
                 forResource |-> authz.forResource,
                 permission |-> authz.permission,
                 result |-> RequireAuthorisation(authz.al, authz.forResource,
                                                 authz.permission)]
    /\ UNCHANGED <<engineVars, evalCall, cmpCall, db, exe, parked, mock,
                   users, index>>

NextAuthz == RequireAuthorisationCall

SpecAuthz == InitAuthz /\ [][NextAuthz]_vars

\* the entries of the list for the resource of the call
EntriesFor == {i \in 1..Len(authz.al) : authz.al[i].Resource = authz.forResource}

\* the lists that hold the entries of al in another order
Reorderings(al) ==
    {[i \in 1..Len(al) |-> al[f[i]]] :
        f \in {g \in [1..Len(al) -> 1..Len(al)] :
                  \A i, j \in 1..Len(al) : g[i] = g[j] => i = j}}

\* C37: RequireAuthorisation returns (true, nil) exactly when an entry for
\* the resource has a permission of at least p, (false,
\* ErrAccessEntryNotFound) exactly when the list has no entry for the
\* resource, (false, nil) when there are entries for it and all are below p;
\* the same result is returned for the entries in any other order.
C37_RequireAuthorisation ==
    authz.state = "returned" =>
       /\ authz.result = AuthzResult(TRUE, "")
             <=> \E i \in EntriesFor : authz.al[i].Permission >= authz.permission
       /\ authz.result = AuthzResult(FALSE, ErrAccessEntryNotFound)
             <=> EntriesFor = {}
       /\ (EntriesFor # {}
             /\ \A i \in EntriesFor : authz.al[i].Permission < authz.permission)
             => authz.result = AuthzResult(FALSE, "")
       /\ \A q \in Reorderings(authz.al) :
             RequireAuthorisation(q, authz.forResource, authz.permission)
                = authz.result

\* a list whose first entry for the resource is too low and whose last grants
C37_Witness ==
    /\ authz.state = "returned"
    /\ Len(authz.al) = 3
    /\ authz.al[1].Resource = authz.forResource
    /\ authz.al[1].Permission < authz.permission
    /\ authz.al[2].Resource # authz.forResource
    /\ authz.al[3].Permission = authz.permission
    /\ authz.al[3].Resource = authz.forResource
    /\ authz.result = AuthzResult(TRUE, "")

\* entries for the resource, all too low
C37_WitnessDenied ==
    /\ authz.state = "returned"
    /\ Cardinality(EntriesFor) = 2
    /\ authz.result = AuthzResult(FALSE, "")

-----------------------------------------------------------------------------
(* Register of package userservice, on a store whose inserts may fail *)

DefaultServerGroup == "server"
DefaultAdminUser == "admin@admin.com"
ResourceTypeSystem == "system"

permissionNames ==
    [p \in PermissionNone..PermissionManage |->
        IF p = PermissionNone THEN "none"
        ELSE IF p = PermissionView THEN "view"
        ELSE IF p = PermissionEdit THEN "edit" ELSE "manage"]

\* Permission.String
PermissionString(p) ==
    IF p \in DOMAIN permissionNames THEN permissionNames[p] ELSE "unknown"

\* PermissionFromString, on names in lower case
PermissionFromString(s) ==
    IF \E p \in DOMAIN permissionNames : permissionNames[p] = s
    THEN [perm |-> CHOOSE p \in DOMAIN permissionNames : permissionNames[p] = s,
          err |-> ""]
    ELSE [perm |-> PermissionNone, err |-> "invalid permission string"]

AllowedResource(name, permission, resourceType) ==
    [Name |-> name, Permission |-> permission, ResourceType |-> resourceType]

\* Register keeps the AllowedResources of the request
RegisterResourcesOfRequest(req) == req.AllowedResources

\* lines 117-124: the AllowedResources Register hands to createUser
RegisterResources(req) ==
    IF DefaultAdminUser = req.Email
    THEN <<AllowedResource(DefaultServerGroup, PermissionString(PermissionManage),
                           ResourceTypeSystem)>>
    ELSE <<AllowedResource(DefaultServerGroup, PermissionString(PermissionNone),
                           ResourceTypeSystem)>>

\* lines 199-216: the loop of createUser over the resources from i on; an
\* insert fails when failAt names its round
RECURSIVE CreateAccessEntries(_, _, _, _, _)
CreateAccessEntries(access, subject, resources, i, failAt) ==
    IF i > Len(resources) THEN [access |-> access, err |-> ""]
    ELSE LET perm == PermissionFromString(resources[i].Permission)
         IN  IF perm.err # "" THEN [access |-> access, err |-> perm.err]
             ELSE IF failAt = i
             THEN [access |-> access, err |-> "create access entry"]
             ELSE CreateAccessEntries(
                     Append(access,
                            AccessEntry(subject, resources[i].Name,
                                        resources[i].ResourceType, perm.perm)),
                     subject, resources, i + 1, failAt)

\* store.GetAccessEntriesByIdentity
GetAccessEntriesByIdentity(access, identity) ==
    SelectSeq(access, LAMBDA e : e.Identity = identity)

MaxUsers == 3

RegisterEmails == {DefaultAdminUser, "bob@example.com"}

RegisterRequests ==
    {[Email |-> e, AllowedResources |-> ar] :
        e \in RegisterEmails,
        ar \in { <<>>,
                 <<AllowedResource(DefaultServerGroup, "manage", ResourceTypeSystem)>>,
                 <<AllowedResource("files", "edit", "files"),
                   AllowedResource(DefaultServerGroup, "view", ResourceTypeSystem)>>,
                 <<AllowedResource("files", "owner", "files")>> }}

InitUsers ==
    /\ EngineIdle
    /\ evalCall = EvalIdle
    /\ cmpCall = CmpIdle
    /\ db = EmptyDB
    /\ exe = AnyExecutor
    /\ parked = NoCall
    /\ mock = MockIdle
    /\ ServicesIdle

\* lines 115-148 with createUser, 176-219.  failUser: the insert of the user
\* fails; failAt: the round of the loop whose insert of an entry fails
Register ==
    /\ Len(users.users) < MaxUsers
    /\ \E req \in RegisterRequests, failUser \in BOOLEAN, failAt \in 0..1 :
          LET id == Len(users.users) + 1
              user == [ID |-> id, Subject |-> id, Email |-> req.Email]
              resources == RegisterResources(req)
              made == CreateAccessEntries(users.access, id, resources, 1, failAt)
          IN  IF failUser
              THEN users' = [users EXCEPT
                               !.last = [op |-> "register", req |-> req,
                                         err |-> "failed to create user"]]
              ELSE IF made.err # ""
              THEN users' = [users |-> Append(users.users, user),
                             access |-> made.access,
                             last |-> [op |-> "register", req |-> req,
                                       err |-> made.err]]
              ELSE users' = [users |-> Append(users.users, user),
                             access |-> made.access,
                             last |-> [op |-> "register", req |-> req, err |-> "",
                                       user |-> user,
                                       permissions |->
                                          GetAccessEntriesByIdentity(made.access, id)]]
    /\ UNCHANGED <<engineVars, evalCall, cmpCall, db, exe, parked, mock,
                   authz, index>>

NextUsers == Register

SpecUsers == InitUsers /\ [][NextUsers]_vars

\* the entry a registered user of that email is to have
EntryOfEmail(subject, email) ==
    AccessEntry(subject, DefaultServerGroup, ResourceTypeSystem,
                IF email = DefaultAdminUser THEN PermissionManage
                ELSE PermissionNone)

\* C36: the user of a Register that returned a result has exactly one access
\* entry, on the default server group, with permission manage when the email
\* of the request is the default admin email and none otherwise; no user has
\* an entry other than that one, whatever AllowedResources the requests held.
C36_RegisterGrantsDefaultOnly ==
    /\ (users.last.op = "register" /\ users.last.err = "")
          => /\ users.last.permissions
                   = <<EntryOfEmail(users.last.user.Subject, users.last.req.Email)>>
             /\ GetAccessEntriesByIdentity(users.access, users.last.user.Subject)
                   = users.last.permissions
    /\ \A i \in 1..Len(users.access) :
          \E u \in 1..Len(users.users) :
             /\ users.users[u].Subject = users.access[i].Identity
             /\ users.access[i] = EntryOfEmail(users.users[u].Subject,
                                               users.users[u].Email)
    /\ \A u \in 1..Len(users.users) :
          Len(GetAccessEntriesByIdentity(users.access, users.users[u].Subject)) <= 1

\* a request that asked for manage on the server group and for an email that
\* is not the admin's got none
C36_Witness ==
    /\ users.last.op = "register"
    /\ users.last.err = ""
    /\ users.last.req.Email # DefaultAdminUser
    /\ Len(users.last.req.AllowedResources) = 1
    /\ users.last.req.AllowedResources[1].Permission = "manage"
    /\ users.last.permissions[1].Permission = PermissionNone
    /\ Len(users.users) = 2

\* the admin email got manage
C36_WitnessAdmin ==
    /\ users.last.op = "register"
    /\ users.last.err = ""
    /\ users.last.req.Email = DefaultAdminUser
    /\ users.last.req.AllowedResources = <<>>
    /\ users.last.permissions[1].Permission = PermissionManage

-----------------------------------------------------------------------------
(* Index, Search and ListKeywords of package indexservice.  The rows of the *)
(* kv table are those of the chain store above; chunks are the chunk index  *)
(* rows and vectors the ids held by the vector store.  indexrepo is         *)
(* modelled by what its callers rely on: IngestChunks gives each chunk a    *)
(* new id, inserts its vector and its chunk index row and calls the augment *)
(* strategy with the id; ExecuteVectorSearch returns chunks of vectors that *)
(* are in the vector store, each with the id of its chunk.                  *)

VectorKeyPrefix == "vector:"

ResourceTypeFile == "file"

ErrMissingParameter == "missing parameter"

MaxVectors == 2

VectorIDs == <<"v1", "v2", "v3", "v4", "v5">>

\* json.Marshal of Keyword{Text: keywords}
MarshalKeyword(keywords) == <<Member("text", keywords)>>

\* lines 115-132: augmentStrategy writes the keywords of the chunk
AugmentStrategy(kv, vectorID, keywords) ==
    SetKV(kv, VectorKeyPrefix \o vectorID, MarshalKeyword(keywords))

ChunkIndex(id, resourceID, resourceType) ==
    [ID |-> id, VectorID |-> id, ResourceID |-> resourceID,
     ResourceType |-> resourceType]

\* lines 99-113: the vectors and keyword rows of the chunks are deleted
RECURSIVE ReplaceVectors(_, _, _)
ReplaceVectors(ix, chunks, i) ==
    IF i > Len(chunks) THEN ix
    ELSE ReplaceVectors(
            [ix EXCEPT !.vectors = @ \ {chunks[i].VectorID},
                       !.kv = DeleteKV(@, VectorKeyPrefix \o chunks[i].VectorID).kv],
            chunks, i + 1)

IndexRequests ==
    [ID : {"f1", "f2"}, Replace : BOOLEAN, JobID : {"", "j1"},
     LeaserID : {"", "w1"}]

\* service.Index, lines 59-164, for a request of one chunk.  job: the leased
\* job found
IndexChunks ==
    /\ Len(index.chunks) < MaxVectors
    /\ \E request \in IndexRequests,
          job \in [Leaser : {"w1", "w2"}, EntityType : {ResourceTypeFile, "chat"}],
          keywords \in {"alpha, beta", ""} :
          IF request.LeaserID = "" \/ request.JobID = ""
          THEN index' = [index EXCEPT
                           !.last = [op |-> "index", err |-> ErrMissingParameter]]
          ELSE IF job.Leaser # request.LeaserID
          THEN index' = [index EXCEPT
                           !.last = [op |-> "index",
                                     err |-> "job is not leased by this leaser"]]
          ELSE LET old == SelectSeq(index.chunks,
                                    LAMBDA c : c.ResourceID = request.ID
                                               /\ c.ResourceType = ResourceTypeFile)
                   replaced == IF request.Replace
                               THEN ReplaceVectors(index, old, 1) ELSE index
                   id == VectorIDs[Len(index.chunks) + 1]
               IN  index' = [kv |-> AugmentStrategy(replaced.kv, id, keywords),
                             chunks |-> Append(index.chunks,
                                               ChunkIndex(id, request.ID,
                                                          job.EntityType)),
                             vectors |-> replaced.vectors \cup {id},
                             last |-> [op |-> "index", err |-> "",
                                       vectorIDs |-> <<id>>]]
    /\ UNCHANGED <<engineVars, evalCall, cmpCall, db, exe, parked, mock,
                   users, authz>>

SearchResult(chunk) ==
    [ID |-> chunk.ResourceID, ResourceType |-> chunk.ResourceType,
     ChunkID |-> chunk.ID]

\* lines 225-239: the loop over the results from i on; GetFileByID fails in
\* round failAt
RECURSIVE ExpandFiles(_, _, _, _)
ExpandFiles(kv, results, i, failAt) ==
    IF i > Len(results) THEN [kv |-> kv, err |-> ""]
    ELSE IF results[i].ResourceType = ResourceTypeFile /\ failAt = i
    THEN [kv |-> kv, err |-> "BADSERVER STATE"]
    ELSE LET deleted == DeleteKV(kv, VectorKeyPrefix \o results[i].ChunkID)
         IN  IF deleted.err = ErrNotFound
             THEN [kv |-> kv,
                   err |-> "BADSERVER STATE failed to clean orphaned KV"]
             ELSE ExpandFiles(deleted.kv, results, i + 1, failAt)

\* the chunks at the positions, in the order of the chunk index
RECURSIVE ResultsAt(_, _, _)
ResultsAt(chunks, positions, i) ==
    IF i > Len(chunks) THEN <<>>
    ELSE (IF i \in positions THEN <<SearchResult(chunks[i])>> ELSE <<>>)
            \o ResultsAt(chunks, positions, i + 1)

\* lines 182-246.  found: the chunks the vector search returned
Search ==
    /\ \E request \in [TopK : {0, 1}, ExpandFiles : BOOLEAN],
          classifyErr \in BOOLEAN, failAt \in 0..1,
          found \in SUBSET {i \in 1..Len(index.chunks) :
                               index.chunks[i].VectorID \in index.vectors} :
          /\ Cardinality(found) <= (IF request.TopK <= 0 THEN 10 ELSE request.TopK)
          /\ LET searchResults == ResultsAt(index.chunks, found, 1)
                 expanded == IF request.ExpandFiles
                             THEN ExpandFiles(index.kv, searchResults, 1, failAt)
                             ELSE [kv |-> index.kv, err |-> ""]
             IN  IF classifyErr
                 THEN index' = [index EXCEPT
                                  !.last = [op |-> "search", request |-> request,
                                            err |-> "question classification failed"]]
                 ELSE index' = [index EXCEPT
                                  !.kv = expanded.kv,
                                  !.last = [op |-> "search", request |-> request,
                                            err |-> expanded.err,
                                            results |-> searchResults]]
    /\ UNCHANGED <<engineVars, evalCall, cmpCall, db, exe, parked, mock,
                   users, authz>>

\* json.Unmarshal into a Keyword
UnmarshalKeyword(o) == FieldOf(o, "text", "")

\* lines 318-344
ListKeywords ==
    /\ LET kvs == ListKVPrefix(index.kv, VectorKeyPrefix)
           texts == [i \in 1..Len(kvs) |-> UnmarshalKeyword(kvs[i].value)]
       IN  index' = [index EXCEPT
                       !.last = [op |-> "keywords", err |-> "",
                                 keywords |-> SelectSeq(texts, LAMBDA t : t # "")]]
    /\ UNCHANGED <<engineVars, evalCall, cmpCall, db, exe, parked, mock,
                   users, authz>>

InitIndex ==
    /\ EngineIdle
    /\ evalCall = EvalIdle
    /\ cmpCall = CmpIdle
    /\ db = EmptyDB
    /\ exe = AnyExecutor
    /\ parked = NoCall
    /\ mock = MockIdle
    /\ ServicesIdle

NextIndex ==
    \/ IndexChunks
    \/ Search
    \/ ListKeywords

SpecIndex == InitIndex /\ [][NextIndex]_vars

\* the rows under the prefix "vector:"
VectorRows(kv) ==
    {kv[i] : i \in {j \in 1..Len(kv) : HasPrefix(kv[j].key, VectorKeyPrefix)}}

\* C38: a call of Search, with ExpandFiles or without, leaves the set of rows
\* under the prefix "vector:" as it was.
C38_SearchIsReadOnly ==
    [][index'.last.op = "search" => VectorRows(index'.kv) = VectorRows(index.kv)]_vars

====
